---- MODULE Spec2Model ----
(***************************************************************************)
(* Model of the Salesapp checkout saga (agents/app/orchestrator.py) and    *)
(* the inventory ledger it depends on (agents/inventory_agent.py),         *)
(* together with the payment, fulfillment and loyalty agents it calls.     *)
(*                                                                         *)
(* Threads execute handlers step by step.  A step is one access to shared  *)
(* state (the stock map, the reservation store, the lock); purely local    *)
(* computation is folded into the step that follows it.                    *)
(***************************************************************************)
EXTENDS Integers, Sequences, FiniteSets, TLC

VARIABLES
    stock,          \* InventoryAgent._stock: sku -> [qty, locations]
    reservations,   \* InventoryAgent._reservations: reservation id -> items
    lock,           \* _lock: NoThread when free, else the thread holding it
    now,            \* the wall clock, in whole seconds
    call,           \* call[t]: the InventoryAgent handler thread t is executing
    result,         \* result[t]: the TaskResult (or fault) of t's last handler
    pre,            \* pre[t]: the ledger as it was when t's current call began
    prev,           \* prev[t]: summary of the call t completed before this one
    nops,           \* number of direct ledger calls started so far
    stock0,         \* the stock map in the initial state
    saga,           \* saga[t]: the checkout_flow frame of thread t
    transactions,   \* PaymentAgent._transactions, in order of creation
    fulfillments,   \* FulfillmentAgent._fulfillments, in order of creation
    stores,         \* FulfillmentAgent._stores: store id -> pickup capacity
    points,         \* LoyaltyAgent._points: customer id -> points
    ncalls,         \* number of checkout_flow calls started so far
    snaps           \* snaps[t]: the (total, store quantity) pairs the ledger held
                    \* between the two reads of the check thread t is doing

vars ==
    <<stock, reservations, lock, now, call, result, pre, prev, nops, stock0,
      saga, transactions, fulfillments, stores, points, ncalls, snaps>>

\* the state of the orchestrator's other agents and of its callers
sagaVars == <<saga, transactions, fulfillments, stores, points, ncalls>>

(***************************************************************************)
(* Bounds of the model.                                                    *)
(***************************************************************************)
\* number of threads calling the agents concurrently
NThreads == 3
\* the clock runs from 0 to MaxTime seconds
MaxTime == 1
\* number of direct ledger calls in one behaviour of Spec
MaxOps == 2
\* number of checkout_flow calls in one behaviour of SpecSaga
MaxCalls == 1
\* largest quantity on one line of a request
MaxQty == 2
\* number of tasks sent to the collaborators in one behaviour of SpecPickup
MaxTasks == 3

Threads == 1..NThreads
NoThread == 0

(***************************************************************************)
(* Names: the SKUs and locations of InventoryAgent.__init__, and one SKU   *)
(* of the recommendation catalog that the ledger does not stock.           *)
(***************************************************************************)
RED == "TSHIRT-RED-XL"
BLUE == "TSHIRT-BLUE-M"
JEANS == "JEANS-BLK-32"
HAT == "HAT-BLK"
BELT == "BELT-BRN"

\* the location ids, in the order sorted() gives them
LocOrder == <<"STORE_1", "STORE_2", "WAREHOUSE">>

EmptyMap == [x \in {} |-> 0]

\* InventoryAgent.__init__: the stock map after construction
InitStock ==
    (RED :> [qty |-> 10, locations |-> ("STORE_1" :> 5 @@ "WAREHOUSE" :> 5)])
    @@ (BLUE :> [qty |-> 0, locations |-> ("STORE_1" :> 0 @@ "WAREHOUSE" :> 0)])
    @@ (JEANS :> [qty |-> 6, locations |-> ("STORE_2" :> 6)])
    @@ (HAT :> [qty |-> 15, locations |-> ("WAREHOUSE" :> 15)])

\* one line of an item list / cart
Line(s, q, p) == [sku |-> s, qty |-> q, price |-> p]

\* a line is a dict: any of its keys may be absent
Has(it, key) == key \in DOMAIN it

\* a missing order id / reservation id / sku (None)
NoSku == ""
NoOrder == ""
NoRid == <<>>
NoStore == ""

(***************************************************************************)
(* Pure parts of InventoryAgent._reserve and _release.                     *)
(***************************************************************************)
\* it.get("sku") and it.get("qty", 1), as _check reads a line
GetSku(it) == IF Has(it, "sku") THEN it.sku ELSE NoSku
GetQty(it) == IF Has(it, "qty") THEN it.qty ELSE 1

\* _reserve, lines 105-106 (and _release, 163-164): it["sku"] or it["qty"]
\* raises KeyError
Malformed(it) == ~Has(it, "sku") \/ ~Has(it, "qty")

\* _reserve, line 107: the per-line availability test
Insufficient(stk, it) ==
    it.sku \notin DOMAIN stk \/ stk[it.sku].qty < it.qty

\* _reserve, lines 104-114: index of the first line at which the validation
\* loop stops (a KeyError or an insufficient line), 0 if none
FirstInsufficient(stk, items) ==
    LET Stops(i) == Malformed(items[i]) \/ Insufficient(stk, items[i])
    IN IF \E i \in 1..Len(items) : Stops(i)
       THEN CHOOSE i \in 1..Len(items) : Stops(i) /\ \A j \in 1..(i - 1) : ~Stops(j)
       ELSE 0

\* _reserve, lines 105-114: how the validation loop ends at line it
ValidationFailure(it) ==
    IF Malformed(it) THEN [status |-> "raised", code |-> "KeyError", rid |-> <<>>,
                           sku |-> "", items |-> <<>>]
    ELSE [status |-> "failed", code |-> "INSUFFICIENT_STOCK", rid |-> <<>>,
          sku |-> it.sku, items |-> <<>>]

\* _reserve, line 117: f"res_{order_id}_{reservation_ts}"
ReservationId(order_id, ts) == <<order_id, ts>>

\* mutant: the locations are visited in descending order
SortedKeysDescending(locs) ==
    SelectSeq(<<LocOrder[3], LocOrder[2], LocOrder[1]>>, LAMBDA l : l \in DOMAIN locs)

\* sorted(locs.keys())
SortedKeys(locs) == SelectSeq(LocOrder, LAMBDA l : l \in DOMAIN locs)

\* _reserve, lines 125-132: the loop over the sorted locations
RECURSIVE DepleteLocations(_, _, _)
DepleteLocations(locs, keys, qty) ==
    IF keys = <<>> THEN locs
    ELSE LET loc == Head(keys) IN
         IF locs[loc] >= qty
         THEN [locs EXCEPT ![loc] = @ - qty]
         ELSE DepleteLocations([locs EXCEPT ![loc] = 0], Tail(keys), qty - locs[loc])

\* _reserve, line 121: self._stock[sku]["qty"] -= qty
DecQty(stk, it) == [stk EXCEPT ![it.sku].qty = @ - it.qty]

\* _reserve, lines 124-134: the location buckets of one line
DecLocations(stk, it) ==
    [stk EXCEPT ![it.sku].locations = DepleteLocations(@, SortedKeys(@), it.qty)]

\* _reserve, lines 118-134 for a whole item list
RECURSIVE ReserveItems(_, _)
ReserveItems(stk, items) ==
    IF items = <<>> THEN stk
    ELSE ReserveItems(DecLocations(DecQty(stk, Head(items)), Head(items)), Tail(items))

\* mutant: the reservation record is not stored
StoreReservationDrop(res, rid, items) == res

\* self._reservations[reservation_id] = {...}: insert or overwrite
StoreReservation(res, rid, items) ==
    [r \in DOMAIN res \cup {rid} |-> IF r = rid THEN items ELSE res[r]]

\* mutant: the record is read but not removed (get instead of pop)
PopReservationKeep(res, rid) == res

\* self._reservations.pop(rid)
PopReservation(res, rid) == [r \in DOMAIN res \ {rid} |-> res[r]]

\* _release, lines 165-168: the total of one released line
AddQty(stk, it) ==
    IF it.sku \notin DOMAIN stk
    THEN stk @@ (it.sku :> [qty |-> it.qty, locations |-> EmptyMap])
    ELSE [stk EXCEPT ![it.sku].qty = @ + it.qty]

\* mutant: the quantity goes back to the first location of the SKU
AddFirstLocation(stk, it) ==
    LET locs == stk[it.sku].locations
        first == IF DOMAIN locs = {} THEN "WAREHOUSE" ELSE Head(SortedKeys(locs))
        old == IF first \in DOMAIN locs THEN locs[first] ELSE 0
    IN [stk EXCEPT ![it.sku].locations = (first :> (old + it.qty)) @@ locs]

\* _release, lines 170-171: locs["WAREHOUSE"] = locs.get("WAREHOUSE", 0) + qty
AddWarehouse(stk, it) ==
    LET locs == stk[it.sku].locations
        old == IF "WAREHOUSE" \in DOMAIN locs THEN locs["WAREHOUSE"] ELSE 0
    IN [stk EXCEPT ![it.sku].locations = ("WAREHOUSE" :> (old + it.qty)) @@ locs]

(***************************************************************************)
(* Handler frames and task results.                                        *)
(***************************************************************************)
IdleCall ==
    [op |-> "none", pc |-> "idle", order_id |-> NoOrder, items |-> <<>>,
     preferred_store |-> NoStore, rid |-> NoRid, i |-> 0, seen |-> 0, resp |-> <<>>,
     auth_id |-> 0, keys |-> <<>>, left |-> 0]

NoResult == [status |-> "none", code |-> "", rid |-> NoRid, sku |-> "", items |-> <<>>]

\* TaskResult(status="success", payload=...)
Success(rid, items) ==
    [status |-> "success", code |-> "", rid |-> rid, sku |-> "", items |-> items]

\* TaskResult(status="failed", errors=[ErrorDetail(code=..., details=...)])
Failed(code, sku, rid) ==
    [status |-> "failed", code |-> code, rid |-> rid, sku |-> sku, items |-> <<>>]

\* the handler ended in an exception instead of a TaskResult
Raised(code) == [status |-> "raised", code |-> code, rid |-> NoRid, sku |-> "", items |-> <<>>]

NoPrev ==
    [op |-> "none", rid |-> NoRid, status |-> "none", items |-> <<>>, stock |-> EmptyMap]

\* what is remembered of a completed call when the thread starts the next one
Summary(t) ==
    IF call[t].pc = "done" /\ call[t].op = "INVENTORY_RELEASE"
    THEN [op |-> call[t].op, rid |-> call[t].rid, status |-> result[t].status,
          items |-> call[t].items, stock |-> pre[t].stock]
    ELSE IF call[t].pc = "done" /\ call[t].op = "INVENTORY_RESERVE"
              /\ result[t].status = "success"
    THEN [op |-> call[t].op, rid |-> call[t].rid, status |-> result[t].status,
          items |-> call[t].items]
    ELSE NoPrev

Ledger == [stock |-> stock, reservations |-> reservations]

Free(t) == call[t].pc \in {"idle", "done"}

\* mutant: the lock is taken without waiting for it to be free
AcquireLockNoWait(t) == lock' = t

\* with _lock: entering blocks until the lock is free
AcquireLock(t) == lock = NoThread /\ lock' = t

\* mutant: the lock is kept when the critical section is left
ReleaseLockKeep(t) == lock' = lock

\* leaving the with block, on every path out of it
ReleaseLock(t) == lock' = NoThread

(***************************************************************************)
(* InventoryAgent._check                                                   *)
(***************************************************************************)
\* mutant: an unavailable line is reported as an error of the task
CheckResultWithErrors(resp) ==
    IF \A k \in 1..Len(resp) : resp[k].available
    THEN Success(NoRid, resp)
    ELSE [status |-> "failed", code |-> "UNAVAILABLE", rid |-> NoRid, sku |-> "",
          items |-> resp]

\* mutant: the task succeeds when some line is available
CheckResultAnyAvailable(resp) ==
    IF \E k \in 1..Len(resp) : resp[k].available
    THEN Success(NoRid, resp)
    ELSE [status |-> "failed", code |-> "", rid |-> NoRid, sku |-> "", items |-> resp]

\* _check, lines 72-87: the result built from the response items
CheckResult(resp) ==
    IF \A k \in 1..Len(resp) : resp[k].available
    THEN Success(NoRid, resp)
    ELSE [status |-> "failed", code |-> "", rid |-> NoRid, sku |-> "", items |-> resp]

\* _check, lines 44-46: entry
BeginCheck(t, items, store) ==
    /\ call' = [call EXCEPT ![t] =
                  [IdleCall EXCEPT !.op = "INVENTORY_CHECK", !.items = items,
                                   !.preferred_store = store, !.i = 1,
                                   !.pc = IF items = <<>> THEN "done" ELSE "c_read"]]
    /\ result' = [result EXCEPT ![t] =
                    IF items = <<>> THEN CheckResult(<<>>) ELSE NoResult]

\* response_items.append(...), and the return after the last item
AppendResponse(t, entry) ==
    LET c == call[t]
        resp == Append(c.resp, entry)
        last == c.i = Len(c.items)
    IN /\ call' = [call EXCEPT ![t] =
                     [c EXCEPT !.resp = resp, !.i = c.i + 1,
                               !.pc = IF last THEN "done" ELSE "c_read"]]
       /\ result' = [result EXCEPT ![t] = IF last THEN CheckResult(resp) ELSE @]

\* _check, lines 48-54 and 66-70: look the SKU up and read its total; with
\* no preferred store the entry is built from that read alone
CheckRead(t) ==
    /\ call[t].pc = "c_read"
    /\ LET c == call[t]
           it == c.items[c.i]
           sku == GetSku(it)
       IN IF sku \notin DOMAIN stock
          THEN AppendResponse(t, [sku |-> sku, available |-> FALSE, available_qty |-> 0,
                                  has_store |-> FALSE, store_qty |-> 0])
          ELSE IF c.preferred_store # NoStore
               THEN /\ call' = [call EXCEPT ![t] =
                                  [c EXCEPT !.pc = "c_loc", !.seen = stock[sku].qty]]
                    /\ UNCHANGED result
               ELSE AppendResponse(t, [sku |-> sku,
                                       available |-> stock[sku].qty >= GetQty(it),
                                       available_qty |-> stock[sku].qty,
                                       has_store |-> FALSE, store_qty |-> 0])
    /\ UNCHANGED <<stock, reservations, lock, now>>

\* _check, lines 56-70: a later read of the entry: is the preferred store
\* one of the SKU's locations now, and if so its quantity.  A location is
\* never removed, so the test of line 56 and the read of line 57 see the
\* same membership.
CheckReadStore(t) ==
    /\ call[t].pc = "c_loc"
    /\ LET c == call[t]
           it == c.items[c.i]
           locs == stock[it.sku].locations
       IN IF c.preferred_store \in DOMAIN locs
          THEN AppendResponse(t, [sku |-> it.sku,
                                  available |-> (locs[c.preferred_store] >= GetQty(it))
                                                   \/ (c.seen >= GetQty(it)),
                                  available_qty |-> c.seen,
                                  has_store |-> TRUE,
                                  store_qty |-> locs[c.preferred_store]])
          ELSE AppendResponse(t, [sku |-> it.sku,
                                  available |-> c.seen >= GetQty(it),
                                  available_qty |-> c.seen,
                                  has_store |-> FALSE, store_qty |-> 0])
    /\ UNCHANGED <<stock, reservations, lock, now>>

(***************************************************************************)
(* InventoryAgent._reserve                                                 *)
(***************************************************************************)
\* mutant: the payload is not validated
BeginReserveUnchecked(t, order_id, items) ==
    /\ call' = [call EXCEPT ![t] =
                  [IdleCall EXCEPT !.op = "INVENTORY_RESERVE", !.order_id = order_id,
                                   !.items = items, !.pc = "r_lock"]]
    /\ result' = [result EXCEPT ![t] = NoResult]

\* _reserve, lines 91-100: entry and the MISSING_FIELDS test
BeginReserve(t, order_id, items) ==
    LET missing == order_id = NoOrder \/ items = <<>>
    IN /\ call' = [call EXCEPT ![t] =
                     [IdleCall EXCEPT !.op = "INVENTORY_RESERVE", !.order_id = order_id,
                                      !.items = items,
                                      !.pc = IF missing THEN "done" ELSE "r_lock"]]
       /\ result' = [result EXCEPT ![t] =
                       IF missing THEN Failed("MISSING_FIELDS", "", NoRid) ELSE NoResult]

\* _reserve, line 103: with _lock
ReserveLock(t) ==
    /\ call[t].pc = "r_lock"
    /\ AcquireLock(t)
    /\ call' = [call EXCEPT ![t].pc = "r_val"]
    /\ UNCHANGED <<stock, reservations, now, result>>

\* mutant: each line is decremented as soon as it has been validated
ReserveValidateEager(t) ==
    /\ call[t].pc = "r_val"
    /\ LET c == call[t]
           bad == FirstInsufficient(stock, c.items)
       IN IF bad # 0
          THEN /\ result' = [result EXCEPT ![t] = ValidationFailure(c.items[bad])]
               /\ call' = [call EXCEPT ![t].pc = "done"]
               /\ stock' = ReserveItems(stock, SubSeq(c.items, 1, bad - 1))
               /\ ReleaseLock(t)
          ELSE /\ call' = [call EXCEPT ![t] =
                             [c EXCEPT !.pc = "r_qty", !.i = 1,
                                       !.rid = ReservationId(c.order_id, now)]]
               /\ UNCHANGED <<result, lock, stock>>
    /\ UNCHANGED <<reservations, now>>

\* _reserve, lines 104-117: validate every line, then name the reservation
ReserveValidate(t) ==
    /\ call[t].pc = "r_val"
    /\ LET c == call[t]
           bad == FirstInsufficient(stock, c.items)
       IN IF bad # 0
          THEN /\ result' = [result EXCEPT ![t] = ValidationFailure(c.items[bad])]
               /\ call' = [call EXCEPT ![t].pc = "done"]
               /\ ReleaseLock(t)
          ELSE /\ call' = [call EXCEPT ![t] =
                             [c EXCEPT !.pc = "r_qty", !.i = 1,
                                       !.rid = ReservationId(c.order_id, now)]]
               /\ UNCHANGED <<result, lock>>
    /\ UNCHANGED <<stock, reservations, now>>

\* _reserve, lines 119-125: the SKU total of line i, and the sorted list
\* of the SKU's locations the loop of line 125 will visit
ReserveDecQty(t) ==
    /\ call[t].pc = "r_qty"
    /\ LET it == call[t].items[call[t].i]
       IN /\ stock' = DecQty(stock, it)
          /\ call' = [call EXCEPT ![t] =
                        [@ EXCEPT !.pc = "r_loc", !.left = it.qty,
                                  !.keys = SortedKeys(stock[it.sku].locations)]]
    /\ UNCHANGED <<reservations, lock, now, result>>

\* _reserve, lines 125-134: one pass of the loop over the locations of
\* line i: the write to one location (lines 127 or 132); after the break or
\* the last location the outer loop goes on to the next line
ReserveDecLocations(t) ==
    /\ call[t].pc = "r_loc"
    /\ LET c == call[t]
           it == c.items[c.i]
           locs == stock[it.sku].locations
           loc == Head(c.keys)
           goes_on == c.keys # <<>> /\ locs[loc] < c.left /\ Tail(c.keys) # <<>>
           after == [c EXCEPT !.keys = <<>>, !.left = 0]
       IN /\ stock' = IF c.keys = <<>> THEN stock
                      ELSE IF locs[loc] >= c.left
                      THEN [stock EXCEPT ![it.sku].locations[loc] = @ - c.left]
                      ELSE [stock EXCEPT ![it.sku].locations[loc] = 0]
          /\ call' = [call EXCEPT ![t] =
                        IF goes_on
                        THEN [c EXCEPT !.keys = Tail(c.keys), !.left = c.left - locs[loc]]
                        ELSE IF c.i < Len(c.items)
                        THEN [after EXCEPT !.pc = "r_qty", !.i = c.i + 1]
                        ELSE [after EXCEPT !.pc = "r_store"]]
    /\ UNCHANGED <<reservations, lock, now, result>>

\* _reserve, lines 136-147: record the reservation, leave the lock, return
ReserveStore(t) ==
    /\ call[t].pc = "r_store"
    /\ reservations' = StoreReservation(reservations, call[t].rid, call[t].items)
    /\ ReleaseLock(t)
    /\ call' = [call EXCEPT ![t].pc = "done"]
    /\ result' = [result EXCEPT ![t] = Success(call[t].rid, call[t].items)]
    /\ UNCHANGED <<stock, now>>

(***************************************************************************)
(* InventoryAgent._release                                                 *)
(***************************************************************************)
\* mutant: the reservation id is not validated
BeginReleaseUnchecked(t, rid) ==
    /\ call' = [call EXCEPT ![t] =
                  [IdleCall EXCEPT !.op = "INVENTORY_RELEASE", !.rid = rid,
                                   !.pc = "l_pop"]]
    /\ result' = [result EXCEPT ![t] = NoResult]

\* _release, lines 151-158: entry and the INVALID_RESERVATION test
BeginRelease(t, rid) ==
    LET invalid == rid = NoRid \/ rid \notin DOMAIN reservations
    IN /\ call' = [call EXCEPT ![t] =
                     [IdleCall EXCEPT !.op = "INVENTORY_RELEASE", !.rid = rid,
                                      !.pc = IF invalid THEN "done" ELSE "l_pop"]]
       /\ result' = [result EXCEPT ![t] =
                       IF invalid THEN Failed("INVALID_RESERVATION", "", rid) ELSE NoResult]

\* _release, lines 159-160: details = self._reservations.pop(rid)
ReleasePop(t) ==
    /\ call[t].pc = "l_pop"
    /\ IF call[t].rid \in DOMAIN reservations
       THEN /\ reservations' = PopReservation(reservations, call[t].rid)
            /\ call' = [call EXCEPT ![t] =
                          [@ EXCEPT !.pc = "l_lock", !.items = reservations[call[t].rid]]]
            /\ UNCHANGED result
       ELSE /\ call' = [call EXCEPT ![t].pc = "done"]
            /\ result' = [result EXCEPT ![t] = Raised("KeyError")]
            /\ UNCHANGED reservations
    /\ UNCHANGED <<stock, lock, now>>

\* _release, line 161: with _lock
ReleaseEnter(t) ==
    /\ call[t].pc = "l_lock"
    /\ AcquireLock(t)
    /\ call' = [call EXCEPT ![t] = [@ EXCEPT !.pc = "l_qty", !.i = 1]]
    /\ UNCHANGED <<stock, reservations, now, result>>

\* the return of _release after the last line, lines 172-177
ReleaseAdvance(t) ==
    IF call[t].i < Len(call[t].items)
    THEN /\ call' = [call EXCEPT ![t] = [@ EXCEPT !.pc = "l_qty", !.i = @ + 1]]
         /\ UNCHANGED <<lock, result>>
    ELSE /\ call' = [call EXCEPT ![t].pc = "done"]
         /\ result' = [result EXCEPT ![t] = Success(call[t].rid, <<>>)]
         /\ ReleaseLock(t)

\* _release, lines 163-168: the SKU total of line i
ReleaseAddQty(t) ==
    /\ call[t].pc = "l_qty"
    /\ LET it == call[t].items[call[t].i]
       IN /\ stock' = AddQty(stock, it)
          /\ IF it.sku \notin DOMAIN stock
             THEN ReleaseAdvance(t)
             ELSE /\ call' = [call EXCEPT ![t].pc = "l_loc"]
                  /\ UNCHANGED <<lock, result>>
    /\ UNCHANGED <<reservations, now>>

\* _release, lines 170-171: the WAREHOUSE bucket of line i
ReleaseAddWarehouse(t) ==
    /\ call[t].pc = "l_loc"
    /\ stock' = AddWarehouse(stock, call[t].items[call[t].i])
    /\ ReleaseAdvance(t)
    /\ UNCHANGED <<reservations, now>>

\* one step of whichever InventoryAgent handler thread t is in
LedgerStep(t) ==
    \/ CheckRead(t)
    \/ CheckReadStore(t)
    \/ ReserveLock(t)
    \/ ReserveValidate(t)
    \/ ReserveDecQty(t)
    \/ ReserveDecLocations(t)
    \/ ReserveStore(t)
    \/ ReleasePop(t)
    \/ ReleaseEnter(t)
    \/ ReleaseAddQty(t)
    \/ ReleaseAddWarehouse(t)

\* mutant: the holds lapse when the clock advances
TickExpire ==
    /\ now < MaxTime
    /\ now' = now + 1
    /\ reservations' = EmptyMap
    /\ UNCHANGED <<stock, lock, call, result>>

\* the clock advances
Tick ==
    /\ now < MaxTime
    /\ now' = now + 1
    /\ UNCHANGED <<stock, reservations, lock, call, result>>

(***************************************************************************)
(* PaymentAgent                                                            *)
(***************************************************************************)
\* a payment payload: {method, card_number, token, upi_id, mock_balance}.
\* Card numbers and tokens are sequences of digits; of a UPI id only what
\* _authorize_upi inspects is kept: whether it contains "@" and "fail".
Payment(method, card_number, token, upi_at, upi_fail, mock_balance) ==
    [method |-> method, card_number |-> card_number, token |-> token,
     upi_at |-> upi_at, upi_fail |-> upi_fail, mock_balance |-> mock_balance]

\* s[-4:]
LastFour(s) == SubSeq(s, IF Len(s) > 4 THEN Len(s) - 3 ELSE 1, Len(s))

AuthResult(status, code) == [status |-> status, code |-> code]

\* _authorize_card, lines 60-97
AuthorizeCard(payment) ==
    LET card_number == payment.card_number
        token == payment.token
        last4 == IF card_number # <<>> THEN LastFour(card_number)
                 ELSE IF token # <<>> THEN LastFour(token) ELSE <<0, 0, 0, 0>>
    IN IF card_number # <<>> /\ Len(card_number) < 12
       THEN AuthResult("failed", "INVALID_CARD")
       ELSE IF last4 = <<0, 0, 0, 0>>
       THEN AuthResult("failed", "INSUFFICIENT_FUNDS")
       ELSE IF last4[Len(last4)] % 2 = 0
       THEN AuthResult("success", "")
       ELSE AuthResult("failed", "CARD_DECLINED")

\* _authorize_upi, lines 99-121
AuthorizeUpi(payment) ==
    IF ~payment.upi_at THEN AuthResult("failed", "INVALID_UPI")
    ELSE IF payment.upi_fail THEN AuthResult("failed", "UPI_FAILURE")
    ELSE AuthResult("pending", "")

\* _authorize_gift_card, lines 123-135
AuthorizeGiftCard(amount, payment) ==
    IF payment.mock_balance < amount
    THEN AuthResult("failed", "INSUFFICIENT_GIFT_BALANCE")
    ELSE AuthResult("success", "")

\* _authorize, lines 38-58: the outcome of PAYMENT_AUTHORIZE
Authorize(amount, payment) ==
    IF amount <= 0 THEN AuthResult("failed", "INVALID_AMOUNT")
    ELSE IF payment.method = "card" THEN AuthorizeCard(payment)
    ELSE IF payment.method = "upi" THEN AuthorizeUpi(payment)
    ELSE IF payment.method = "gift_card" THEN AuthorizeGiftCard(amount, payment)
    ELSE IF payment.method = "pos" THEN AuthResult("success", "")
    ELSE AuthResult("failed", "UNSUPPORTED_METHOD")

\* a record that has no captured_at key yet
NoTime == -1

\* the record _authorize_* stores: AUTHORIZED on success, PENDING for UPI.
\* A transaction's tx_id / auth_id is its position in the ledger.
RecordTransaction(txs, amount, payment, status) ==
    IF status = "failed" THEN txs
    ELSE Append(txs, [auth_id |-> Len(txs) + 1, method |-> payment.method,
                      amount |-> amount,
                      status |-> IF status = "pending" THEN "PENDING" ELSE "AUTHORIZED",
                      captured_at |-> NoTime, refunds |-> 0])

\* _capture, lines 151-155: the transaction holding auth_id, 0 if none
FindAuth(txs, auth_id) ==
    IF \E k \in 1..Len(txs) : txs[k].auth_id = auth_id
    THEN CHOOSE k \in 1..Len(txs) :
            /\ txs[k].auth_id = auth_id
            /\ \A j \in 1..(k - 1) : txs[j].auth_id # auth_id
    ELSE 0

\* mutant: only an AUTHORIZED transaction can be captured
CaptureAuthorizedOnly(txs, auth_id) ==
    IF FindAuth(txs, auth_id) = 0 THEN AuthResult("failed", "AUTH_NOT_FOUND")
    ELSE IF txs[FindAuth(txs, auth_id)].status = "PENDING"
    THEN AuthResult("failed", "NOT_AUTHORIZED")
    ELSE AuthResult("success", "")

\* _capture, lines 156-166: the outcome of PAYMENT_CAPTURE
Capture(txs, auth_id) ==
    IF FindAuth(txs, auth_id) = 0 THEN AuthResult("failed", "AUTH_NOT_FOUND")
    ELSE AuthResult("success", "")

\* mutant: the capture leaves the transaction as it was
CaptureTransactionSkip(txs, auth_id) == txs

\* mutant: a capture stamps the record again when it is already captured
CaptureTransactionRestamp(txs, auth_id) ==
    LET k == FindAuth(txs, auth_id)
    IN IF k = 0 THEN txs
       ELSE [txs EXCEPT ![k].status = "CAPTURED", ![k].captured_at = now]

\* _capture, lines 160-165: an already captured record is returned as it
\* is; otherwise found["status"] = "CAPTURED" and found["captured_at"]
CaptureTransaction(txs, auth_id) ==
    LET k == FindAuth(txs, auth_id)
    IN IF k = 0 \/ txs[k].status = "CAPTURED" THEN txs
       ELSE [txs EXCEPT ![k].status = "CAPTURED", ![k].captured_at = now]

\* _refund, lines 169-182: the outcome of PAYMENT_REFUND
Refund(txs, tx_id) ==
    IF tx_id \notin 1..Len(txs) THEN AuthResult("failed", "TX_NOT_FOUND")
    ELSE IF txs[tx_id].status \notin {"CAPTURED", "AUTHORIZED"}
    THEN AuthResult("failed", "REFUND_NOT_ALLOWED")
    ELSE AuthResult("success", "")

(***************************************************************************)
(* FulfillmentAgent and LoyaltyAgent                                       *)
(***************************************************************************)
FastCities == {"bengaluru", "bangalore", "mumbai", "delhi", "kolkata"}

\* _create, lines 41-48, 51, 76 and 105-106: the outcome of
\* FULFILLMENT_CREATE as far as the payload's fields decide it (for
\* click_and_collect the choice of the store follows, see PickupCreate)
FulfillmentCreate(order_id, items, mode, confirmed) ==
    IF order_id = NoOrder \/ items = <<>> THEN AuthResult("failed", "MISSING_FIELDS")
    ELSE IF ~confirmed THEN AuthResult("failed", "INVENTORY_NOT_CONFIRMED")
    ELSE IF mode \in {"ship_to_home", "click_and_collect"} THEN AuthResult("success", "")
    ELSE AuthResult("failed", "UNSUPPORTED_MODE")

\* FulfillmentAgent.__init__, lines 14-18: the pickup capacity of each store
InitStores == [STORE_1 |-> 20, STORE_2 |-> 10, WAREHOUSE |-> 100]

\* _create, lines 78-81: the store of a pickup: the payload's store_id if
\* it has one, else the first store with capacity left, in the order the
\* _stores dict lists them (NoStore if none)
PickStore(st, store_id) ==
    LET order == <<"STORE_1", "STORE_2", "WAREHOUSE">>
    IN IF store_id # NoStore THEN store_id
       ELSE IF \E k \in 1..Len(order) : st[order[k]] > 0
       THEN order[CHOOSE k \in 1..Len(order) :
                     /\ st[order[k]] > 0
                     /\ \A j \in 1..(k - 1) : st[order[j]] <= 0]
       ELSE NoStore

\* _create, lines 76-103: the outcome of FULFILLMENT_CREATE for mode
\* click_and_collect; an unknown store id raises KeyError at line 86
PickupCreate(st, order_id, items, store_id) ==
    LET c == FulfillmentCreate(order_id, items, "click_and_collect", TRUE)
    IN IF c.status # "success" THEN c
       ELSE IF PickStore(st, store_id) = NoStore
       THEN AuthResult("failed", "NO_STORE_AVAILABLE")
       ELSE IF PickStore(st, store_id) \notin DOMAIN st
       THEN AuthResult("raised", "KeyError")
       ELSE AuthResult("success", "")

\* _create, lines 87-100: the click_and_collect record; cancelled tells
\* whether the record has the keys cancel_reason and cancelled_at, which
\* _cancel adds (lines 128-129)
PickupRecord(order_id, items, sid) ==
    [order_id |-> order_id, mode |-> "click_and_collect", status |-> "READY_SOON",
     eta_days |-> 1, store_id |-> sid, items |-> items, cancelled |-> FALSE]

\* _cancel, lines 120-124: the outcome of FULFILLMENT_CANCEL; a
\* fulfillment id is the record's position in the ledger
Cancel(fuls, fid) ==
    IF fid \notin 1..Len(fuls) THEN AuthResult("failed", "FULFILLMENT_NOT_FOUND")
    ELSE AuthResult("success", "")

\* _cancel, lines 131-134: a click_and_collect record with a store gives a
\* capacity unit back to that store
GiveBackCapacity(st, rec) ==
    IF rec.mode = "click_and_collect" /\ rec.store_id # NoStore
          /\ rec.store_id \in DOMAIN st
    THEN [st EXCEPT ![rec.store_id] = @ + 1]
    ELSE st

\* an address whose city is not a str (for instance {"city": 42}); the
\* model writes every city as a string and marks this one by its name
NonStringCity == "<int 42>"

\* _create, line 52: (address.get("city") or "").lower() raises
\* AttributeError when the city is a non-empty value that is not a str
LowerRaises(city) == city = NonStringCity

\* str.lower() on the city names used here
Lower(city) ==
    IF city = "Bangalore" THEN "bangalore" ELSE IF city = "Pune" THEN "pune" ELSE city

\* _create, lines 52-71: the ship_to_home record
FulfillmentRecord(order_id, items, city) ==
    [order_id |-> order_id, mode |-> "ship_to_home", status |-> "SCHEDULED",
     eta_days |-> IF Lower(city) \in FastCities THEN 2 ELSE 4, store_id |-> NoStore,
     items |-> items, cancelled |-> FALSE]

\* LoyaltyAgent.__init__
InitPoints == ("cust_001" :> 1200) @@ ("cust_002" :> 50)

\* _calculate, lines 46-51, and _issue, lines 88-91: the status
LoyaltyStatus(amount) == IF amount <= 0 THEN "failed" ELSE "success"

\* _issue, lines 93-94: the points earned are added to the balance read
\* before (current) and the sum is stored
IssuePoints(pts, cid, current, amount) == (cid :> (current + amount * 100)) @@ pts

(***************************************************************************)
(* SalesOrchestrator.checkout_flow                                         *)
(***************************************************************************)
NoOut == [status |-> "none", reason |-> "", order_id |-> NoOrder, detail |-> "", keys |-> {}]

IdleSaga ==
    [pc |-> "idle", cart |-> <<>>, customer_id |-> "", payment |-> <<>>,
     city |-> "", order_id |-> NoOrder, issued |-> <<>>,
     reservation_id |-> NoRid, auth_id |-> 0,
     inv |-> "none", rec |-> "none", loy_calc |-> "none", reserve |-> "none",
     pay |-> "none", release |-> "none", capture |-> "none", fulfillment |-> "none",
     loy_issue |-> "none", stubbed |-> FALSE, sub |-> {}, out |-> NoOut,
     scan |-> 0, size |-> 0, seen |-> 0]

\* sum(item.get("price", 0) * item.get("qty", 1) for item in cart)
RECURSIVE Amount(_)
Amount(cart) ==
    IF cart = <<>> THEN 0
    ELSE (IF Has(Head(cart), "price") THEN Head(cart).price ELSE 0) * GetQty(Head(cart))
         + Amount(Tail(cart))

\* mutant: every call uses the same order id
FreshOrderShared(n) == "order_0"

\* order_id = f"order_{uuid.uuid4().hex[:8]}": a fresh id for every call
FreshOrder(n) == "order_" \o ToString(n)

\* the dict checkout_flow returns; keys are the keys of that dict
Out(status, reason, order_id, detail, keys) ==
    [status |-> status, reason |-> reason, order_id |-> order_id,
     detail |-> detail, keys |-> keys]

\* return {...}: the call ends with its terminal result
Return(frame, out) == [frame EXCEPT !.pc = "done", !.out = out]

\* one more task handed to an agent's handle()
Issue(frame, types) == [frame EXCEPT !.issued = @ \o types]

\* the response of a collaborator that was bound to the orchestrator in
\* place of the shipped agent and reports a failure
InjectedFailure == AuthResult("failed", "INJECTED")

\* the best-effort collaborators (lines 21 and 24) that a deployment may
\* bind to an implementation reporting failures
BestEffortAgents == {"recommendation", "loyalty"}

\* lines 28-32: a checkout call starts and sends INVENTORY_CHECK; sub is the
\* set of best-effort collaborators bound to a failing implementation
CheckoutStartWith(t, cart, payment, city, store, sub) ==
    /\ saga[t].pc \in {"idle", "done"}
    /\ saga' = [saga EXCEPT ![t] =
                  [IdleSaga EXCEPT !.pc = "check", !.cart = cart,
                                   !.customer_id = "cust_001", !.payment = payment,
                                   !.city = city, !.order_id = FreshOrder(ncalls + 1),
                                   !.issued = <<"INVENTORY_CHECK">>, !.sub = sub]]
    /\ BeginCheck(t, cart, store)

\* a checkout against the shipped collaborators
CheckoutStart(t, cart, payment, city, store) ==
    CheckoutStartWith(t, cart, payment, city, store, {})

\* lines 36-49: RECOMMEND_FOR_CART, LOYALTY_CALCULATE, then send
\* INVENTORY_RESERVE.  The recommendation agent only reads the ledger
\* (lock-free INVENTORY_CHECK of related SKUs) and always succeeds.
\* Neither status is branched on (rec_res only at line 90, loy_res at 43).
ProceedToReserve(t, f) ==
    /\ saga' = [saga EXCEPT ![t] =
                  Issue([f EXCEPT !.pc = "reserve",
                                  !.rec = IF "recommendation" \in f.sub
                                          THEN InjectedFailure.status ELSE "success",
                                  !.loy_calc = IF "loyalty" \in f.sub
                                               THEN InjectedFailure.status
                                               ELSE LoyaltyStatus(Amount(f.cart))],
                        <<"RECOMMEND_FOR_CART", "LOYALTY_CALCULATE", "INVENTORY_RESERVE">>)]
    /\ BeginReserve(t, f.order_id, f.cart)

\* mutant: the checkout goes on whatever the check reported
AfterCheckProceed(t, f, status) == ProceedToReserve(t, f)

\* lines 33-34: branch on the status of the check
AfterCheck(t, f, status) ==
    IF status # "success"
    THEN /\ saga' = [saga EXCEPT ![t] =
                       Return(f, Out("failed", "inventory_unavailable", NoOrder, "",
                                     {"status", "reason", "inventory"}))]
         /\ UNCHANGED <<call, result>>
    ELSE ProceedToReserve(t, f)

\* lines 32-49: the check has returned
CheckoutAfterCheck(t) ==
    /\ saga[t].pc = "check"
    /\ call[t].pc = "done"
    /\ AfterCheck(t, [saga[t] EXCEPT !.inv = result[t].status], result[t].status)
    /\ UNCHANGED <<stock, reservations, lock, now, transactions, fulfillments, stores, points>>

\* mutant: a pending authorization is compensated like a failed one
AfterAuthorizeReleasePending(t, f, a) ==
    IF a.status \in {"failed", "pending"}
    THEN /\ saga' = [saga EXCEPT ![t] =
                       Issue([f EXCEPT !.pc = "release", !.out.detail = a.code],
                             <<"INVENTORY_RELEASE">>)]
         /\ BeginRelease(t, f.reservation_id)
    ELSE /\ saga' = [saga EXCEPT ![t] = [f EXCEPT !.pc = "capture"]]
         /\ UNCHANGED <<call, result>>

\* mutant: a failed authorization returns without releasing the reservation
AfterAuthorizeNoRelease(t, f, a) ==
    IF a.status = "success"
    THEN /\ saga' = [saga EXCEPT ![t] = [f EXCEPT !.pc = "capture"]]
         /\ UNCHANGED <<call, result>>
    ELSE /\ saga' = [saga EXCEPT ![t] =
                       Return(f, IF a.status = "failed"
                                 THEN Out("failed", "payment_failed", NoOrder, a.code,
                                          {"status", "reason", "detail", "next_actions"})
                                 ELSE Out("pending", "", NoOrder, "",
                                          {"status", "payment", "next_actions"}))]
         /\ UNCHANGED <<call, result>>

\* mutant: a pending authorization is taken for a successful one
AfterAuthorizePendingGoesOn(t, f, a) ==
    IF a.status = "failed"
    THEN /\ saga' = [saga EXCEPT ![t] =
                       Issue([f EXCEPT !.pc = "release", !.out.detail = a.code],
                             <<"INVENTORY_RELEASE">>)]
         /\ BeginRelease(t, f.reservation_id)
    ELSE /\ saga' = [saga EXCEPT ![t] = [f EXCEPT !.pc = "capture"]]
         /\ UNCHANGED <<call, result>>

\* mutant: the authorization's status is not looked at
AfterAuthorizeAlwaysCapture(t, f, a) ==
    /\ saga' = [saga EXCEPT ![t] = [f EXCEPT !.pc = "capture"]]
    /\ UNCHANGED <<call, result>>

\* lines 56-64: branch on the authorization: failed sends INVENTORY_RELEASE
\* for the reservation just taken, pending returns, success goes on
AfterAuthorize(t, f, a) ==
    IF a.status = "failed"
    THEN /\ saga' = [saga EXCEPT ![t] =
                       Issue([f EXCEPT !.pc = "release", !.out.detail = a.code],
                             <<"INVENTORY_RELEASE">>)]
         /\ BeginRelease(t, f.reservation_id)
    ELSE IF a.status = "pending"
    THEN /\ saga' = [saga EXCEPT ![t] =
                       Return(f, Out("pending", "", NoOrder, "",
                                     {"status", "payment", "next_actions"}))]
         /\ UNCHANGED <<call, result>>
    ELSE /\ saga' = [saga EXCEPT ![t] = [f EXCEPT !.pc = "capture"]]
         /\ UNCHANGED <<call, result>>

\* lines 50-64: branch on the reserve, then PAYMENT_AUTHORIZE
CheckoutAfterReserve(t) ==
    LET f == saga[t] IN
    /\ f.pc = "reserve"
    /\ call[t].pc = "done"
    /\ IF result[t].status = "raised"
       THEN /\ saga' = [saga EXCEPT ![t] =
                          Return([f EXCEPT !.reserve = result[t].status],
                                 Out("raised", result[t].code, NoOrder, "", {}))]
            /\ UNCHANGED <<call, result, transactions>>
       ELSE IF result[t].status # "success"
       THEN /\ saga' = [saga EXCEPT ![t] =
                          Return([f EXCEPT !.reserve = result[t].status],
                                 Out("failed", "reserve_failed", NoOrder, result[t].code,
                                     {"status", "reason", "detail"}))]
            /\ UNCHANGED <<call, result, transactions>>
       ELSE LET amount == Amount(f.cart)
                a == Authorize(amount, f.payment)
                g == Issue([f EXCEPT !.reserve = result[t].status,
                                     !.reservation_id = result[t].rid,
                                     !.pay = a.status,
                                     !.auth_id = IF a.status = "failed" THEN 0
                                                 ELSE Len(transactions) + 1],
                           <<"PAYMENT_AUTHORIZE">>)
            IN /\ transactions' = RecordTransaction(transactions, amount, f.payment, a.status)
               /\ AfterAuthorize(t, g, a)
    /\ UNCHANGED <<stock, reservations, lock, now, fulfillments, stores, points>>

\* line 59: the release has returned; return payment_failed
CheckoutAfterRelease(t) ==
    LET f == saga[t] IN
    /\ f.pc = "release"
    /\ call[t].pc = "done"
    /\ saga' = [saga EXCEPT ![t] =
                  Return([f EXCEPT !.release = result[t].status],
                         IF result[t].status = "raised"
                         THEN Out("raised", result[t].code, NoOrder, "", {})
                         ELSE Out("failed", "payment_failed", NoOrder, f.out.detail,
                                  {"status", "reason", "detail", "next_actions"}))]
    /\ UNCHANGED <<stock, reservations, lock, now, call, result,
                   transactions, fulfillments, stores, points>>

\* mutant: a failed capture is tried again
CheckoutCaptureRetry(t) ==
    LET f == saga[t] IN
    /\ f.pc = "capture"
    /\ \E injected \in BOOLEAN :
         LET r == IF injected THEN InjectedFailure ELSE Capture(transactions, f.auth_id)
             g == Issue([f EXCEPT !.stubbed = @ \/ injected], <<"PAYMENT_CAPTURE">>)
         IN IF ~injected /\ transactions # <<>> /\ transactions[1].auth_id # f.auth_id
            THEN /\ saga' = [saga EXCEPT ![t] =
                               [g EXCEPT !.pc = "capture_scan", !.scan = 2,
                                         !.size = Len(transactions)]]
                 /\ UNCHANGED transactions
            ELSE /\ transactions' = IF injected THEN transactions
                                    ELSE CaptureTransaction(transactions, f.auth_id)
                 /\ saga' = [saga EXCEPT ![t] =
                               IF r.status # "success"
                               THEN [g EXCEPT !.capture = r.status, !.pc = "capture"]
                               ELSE [g EXCEPT !.capture = r.status, !.pc = "fulfillment"]]
    /\ UNCHANGED <<stock, reservations, lock, now, call, result, fulfillments, stores, points>>

\* lines 67-71 and PaymentAgent._capture, lines 149-153: PAYMENT_CAPTURE is
\* sent; the loop over self._transactions.values() starts and meets the
\* first record.  If that is the record of auth_id (or there is none) the
\* task returns in this step and checkout_flow branches on its status.
CheckoutCapture(t) ==
    LET f == saga[t] IN
    /\ f.pc = "capture"
    /\ \E injected \in BOOLEAN :
         LET r == IF injected THEN InjectedFailure ELSE Capture(transactions, f.auth_id)
             g == Issue([f EXCEPT !.stubbed = @ \/ injected], <<"PAYMENT_CAPTURE">>)
         IN IF ~injected /\ transactions # <<>> /\ transactions[1].auth_id # f.auth_id
            THEN /\ saga' = [saga EXCEPT ![t] =
                               [g EXCEPT !.pc = "capture_scan", !.scan = 2,
                                         !.size = Len(transactions)]]
                 /\ UNCHANGED transactions
            ELSE /\ transactions' = IF injected THEN transactions
                                    ELSE CaptureTransaction(transactions, f.auth_id)
                 /\ saga' = [saga EXCEPT ![t] =
                               IF r.status # "success"
                               THEN Return([g EXCEPT !.capture = r.status],
                                           Out("failed", "capture_failed", NoOrder,
                                               r.code, {"status", "reason", "detail"}))
                               ELSE [g EXCEPT !.capture = r.status, !.pc = "fulfillment"]]
    /\ UNCHANGED <<stock, reservations, lock, now, call, result, fulfillments, stores, points>>

\* PaymentAgent._capture, lines 152-165, and lines 70-71: the loop fetches
\* its next record.  The dict iterator raises RuntimeError when the dict
\* has another size than at the start of the loop (a PAYMENT_AUTHORIZE of
\* another call stored a record meanwhile); nothing catches it.
CheckoutCaptureScan(t) ==
    LET f == saga[t] IN
    /\ f.pc = "capture_scan"
    /\ LET g == [f EXCEPT !.scan = 0, !.size = 0]
           r == Capture(transactions, f.auth_id)
       IN IF Len(transactions) # f.size
          THEN /\ saga' = [saga EXCEPT ![t] =
                             Return([g EXCEPT !.capture = "raised"],
                                    Out("raised", "RuntimeError", NoOrder, "", {}))]
               /\ UNCHANGED transactions
          ELSE IF f.scan <= Len(transactions) /\ transactions[f.scan].auth_id # f.auth_id
          THEN /\ saga' = [saga EXCEPT ![t].scan = f.scan + 1]
               /\ UNCHANGED transactions
          ELSE /\ transactions' = CaptureTransaction(transactions, f.auth_id)
               /\ saga' = [saga EXCEPT ![t] =
                             IF r.status # "success"
                             THEN Return([g EXCEPT !.capture = r.status],
                                         Out("failed", "capture_failed", NoOrder,
                                             r.code, {"status", "reason", "detail"}))
                             ELSE [g EXCEPT !.capture = r.status, !.pc = "fulfillment"]]
    /\ UNCHANGED <<stock, reservations, lock, now, call, result, fulfillments, stores, points>>

\* lines 74-78: FULFILLMENT_CREATE and the branch on its status
CheckoutFulfillment(t) ==
    LET f == saga[t] IN
    /\ f.pc = "fulfillment"
    /\ \E injected \in BOOLEAN :
         LET c == FulfillmentCreate(f.order_id, f.cart, "ship_to_home", TRUE)
             r == IF injected THEN InjectedFailure
                  ELSE IF c.status = "success" /\ LowerRaises(f.city)
                  THEN AuthResult("raised", "AttributeError")
                  ELSE c
             g == Issue([f EXCEPT !.fulfillment = r.status,
                                  !.stubbed = @ \/ injected], <<"FULFILLMENT_CREATE">>)
         IN /\ fulfillments' = IF r.status = "success"
                               THEN Append(fulfillments,
                                           FulfillmentRecord(f.order_id, f.cart, f.city))
                               ELSE fulfillments
            /\ saga' = [saga EXCEPT ![t] =
                          IF r.status = "raised"
                          THEN Return(g, Out("raised", r.code, NoOrder, "", {}))
                          ELSE IF r.status # "success"
                          THEN Return(g, Out("failed", "fulfillment_failed", NoOrder, r.code,
                                             {"status", "reason", "detail"}))
                          ELSE [g EXCEPT !.pc = "loyalty_issue"]]
    /\ UNCHANGED <<stock, reservations, lock, now, call, result, transactions, points,
                   stores>>

\* mutant: a failed LOYALTY_ISSUE fails the checkout
CheckoutLoyaltyIssueBranch(t) ==
    LET f == saga[t] IN
    /\ f.pc = "loyalty_issue"
    /\ \E injected \in (IF "loyalty" \in f.sub THEN {TRUE} ELSE BOOLEAN) :
         LET st == IF injected THEN InjectedFailure.status
                   ELSE LoyaltyStatus(Amount(f.cart))
             g == Issue([f EXCEPT !.stubbed = @ \/ injected], <<"LOYALTY_ISSUE">>)
         IN saga' = [saga EXCEPT ![t] =
                       IF st # "success"
                       THEN Return([g EXCEPT !.loy_issue = st],
                                   Out("failed", "loyalty_failed", NoOrder, "",
                                       {"status", "reason", "detail"}))
                       ELSE [g EXCEPT !.pc = "loyalty_store",
                                      !.seen = IF f.customer_id \in DOMAIN points
                                               THEN points[f.customer_id] ELSE 0]]
    /\ UNCHANGED <<stock, reservations, lock, now, call, result, transactions,
                   fulfillments, stores, points>>

\* lines 81-95 and LoyaltyAgent._issue, lines 87-94: LOYALTY_ISSUE is sent;
\* a failed task is not branched on and the success result is returned; a
\* task that goes on has read the customer's balance (self._points.get)
CheckoutLoyaltyIssue(t) ==
    LET f == saga[t] IN
    /\ f.pc = "loyalty_issue"
    /\ \E injected \in (IF "loyalty" \in f.sub THEN {TRUE} ELSE BOOLEAN) :
         LET st == IF injected THEN InjectedFailure.status
                   ELSE LoyaltyStatus(Amount(f.cart))
             g == Issue([f EXCEPT !.stubbed = @ \/ injected], <<"LOYALTY_ISSUE">>)
         IN saga' = [saga EXCEPT ![t] =
                       IF st # "success"
                       THEN Return([g EXCEPT !.loy_issue = st],
                                   Out("success", "", f.order_id, "",
                                       {"status", "order_id", "inventory",
                                        "recommendations", "payment", "fulfillment",
                                        "loyalty"}))
                       ELSE [g EXCEPT !.pc = "loyalty_store",
                                      !.seen = IF f.customer_id \in DOMAIN points
                                               THEN points[f.customer_id] ELSE 0]]
    /\ UNCHANGED <<stock, reservations, lock, now, call, result, transactions,
                   fulfillments, stores, points>>

\* LoyaltyAgent._issue, lines 94-96, and lines 84-95: the balance read
\* before plus the points earned is stored (no lock is held between the
\* read and the write), the task returns and so does checkout_flow
CheckoutLoyaltyStore(t) ==
    LET f == saga[t] IN
    /\ f.pc = "loyalty_store"
    /\ points' = IssuePoints(points, f.customer_id, f.seen, Amount(f.cart))
    /\ saga' = [saga EXCEPT ![t] =
                  Return([f EXCEPT !.loy_issue = "success", !.seen = 0],
                         Out("success", "", f.order_id, "",
                             {"status", "order_id", "inventory", "recommendations",
                              "payment", "fulfillment", "loyalty"}))]
    /\ UNCHANGED <<stock, reservations, lock, now, call, result, transactions,
                   fulfillments, stores>>

(***************************************************************************)
(* Callers of the ledger API.  Requests are drawn from small sets.         *)
(***************************************************************************)
ApiSkus == {RED, JEANS, BELT}
ApiLines == {Line(s, q, 0) : s \in ApiSkus, q \in 1..MaxQty}
ApiItemLists ==
    {<<>>} \cup {<<l>> : l \in ApiLines} \cup {<<[sku |-> RED]>>}
           \cup {<<l1, l2>> : l1 \in {Line(RED, 1, 0)}, l2 \in ApiLines}
ApiOrderIds == {NoOrder, "o1"}
ApiStores == {NoStore, "STORE_1", "WAREHOUSE"}

\* the reservation made before the model starts (see Init)
PreOrder == "order_pre"
PreRid == ReservationId(PreOrder, 0)
PreHolds ==
    { <<>>,
      <<Line(RED, 9, 0)>>,
      <<Line(RED, 8, 0), Line(JEANS, 5, 0)>>,
      <<Line(RED, 4, 0), Line(JEANS, 6, 0)>> }

ApiRids ==
    {NoRid, PreRid} \cup {ReservationId(o, ts) : o \in ApiOrderIds \ {NoOrder}, ts \in 0..MaxTime}

\* bookkeeping when thread t enters a handler from outside
Enter(t) ==
    /\ Free(t)
    /\ pre' = [pre EXCEPT ![t] = Ledger]
    /\ prev' = [prev EXCEPT ![t] = Summary(t)]

\* a caller sends INVENTORY_CHECK (handle, lines 26-27): any item list, the
\* two-line lists in both orders, with or without a preferred store
ApiCheck(t) ==
    /\ nops < MaxOps
    /\ Enter(t)
    /\ LET Swapped == {<<l[2], l[1]>> : l \in {m \in ApiItemLists : Len(m) = 2}}
       IN \E items \in ApiItemLists \cup Swapped, store \in ApiStores :
             BeginCheck(t, items, store)
    /\ nops' = nops + 1
    /\ UNCHANGED <<stock, reservations, lock, now, stock0, snaps, sagaVars>>

\* a caller sends INVENTORY_RESERVE (handle, lines 28-29)
ApiReserve(t) ==
    /\ nops < MaxOps
    /\ Enter(t)
    /\ \E order_id \in ApiOrderIds, items \in ApiItemLists :
          BeginReserve(t, order_id, items)
    /\ nops' = nops + 1
    /\ UNCHANGED <<stock, reservations, lock, now, stock0, snaps, sagaVars>>

\* a caller sends INVENTORY_RELEASE (handle, lines 30-31)
ApiRelease(t) ==
    /\ nops < MaxOps
    /\ Enter(t)
    /\ \E rid \in ApiRids : BeginRelease(t, rid)
    /\ nops' = nops + 1
    /\ UNCHANGED <<stock, reservations, lock, now, stock0, snaps, sagaVars>>

(***************************************************************************)
(* Initial state: the agent as constructed, after one earlier reservation  *)
(* (order_pre, at second 0) that holds part of the stock.                  *)
(***************************************************************************)
Init ==
    \E held \in PreHolds :
        /\ stock = ReserveItems(InitStock, held)
        /\ stock0 = ReserveItems(InitStock, held)
        /\ reservations = IF held = <<>> THEN EmptyMap
                          ELSE StoreReservation(EmptyMap, PreRid, held)
        /\ lock = NoThread
        /\ now = 0
        /\ call = [t \in Threads |-> IdleCall]
        /\ result = [t \in Threads |-> NoResult]
        /\ pre = [t \in Threads |-> [stock |-> ReserveItems(InitStock, held),
                                     reservations |-> EmptyMap]]
        /\ prev = [t \in Threads |-> NoPrev]
        /\ nops = 0
        /\ saga = [t \in Threads |-> IdleSaga]
        /\ transactions = <<>>
        /\ fulfillments = <<>>
        /\ stores = InitStores
        /\ points = InitPoints
        /\ ncalls = 0
        /\ snaps = [t \in Threads |-> {}]

\* the thread of the sequential specifications
SeqThreads == {CHOOSE t \in Threads : \A u \in Threads : t <= u}

\* Spec: one caller issues ledger calls one after the other
Next ==
    \/ \E t \in SeqThreads : ApiCheck(t)
    \/ \E t \in SeqThreads : ApiReserve(t)
    \/ \E t \in SeqThreads : ApiRelease(t)
    \/ \E t \in SeqThreads : LedgerStep(t) /\ UNCHANGED <<pre, prev, nops, stock0, snaps, sagaVars>>
    \/ Tick /\ (\A t \in Threads : Free(t)) /\ UNCHANGED <<pre, prev, nops, stock0, snaps, sagaVars>>

Spec == Init /\ [][Next]_vars

(***************************************************************************)
(* SpecReserveN: every thread sends one INVENTORY_RESERVE for one unit of  *)
(* the same SKU, under its own order id, and the calls run concurrently.   *)
(***************************************************************************)
UnitSkus == {RED, BLUE, JEANS}
ThreadOrder(t) == "order_t" \o ToString(t)

UnitReserve(t) ==
    /\ call[t].op = "none"
    /\ \E s \in UnitSkus :
          /\ \A u \in Threads : call[u].op # "none" => call[u].items[1].sku = s
          /\ BeginReserve(t, ThreadOrder(t), <<Line(s, 1, 0)>>)
    /\ UNCHANGED <<stock, reservations, lock, now, pre, prev, nops, stock0, snaps, sagaVars>>

NextReserveN ==
    \/ \E t \in Threads : UnitReserve(t)
    \/ \E t \in Threads : LedgerStep(t) /\ UNCHANGED <<pre, prev, nops, stock0, snaps, sagaVars>>
    \/ Tick /\ UNCHANGED <<pre, prev, nops, stock0, snaps, sagaVars>>

SpecReserveN == Init /\ [][NextReserveN]_vars

(***************************************************************************)
(* Operators used to state the properties.                                 *)
(***************************************************************************)
(* Two callers use the ledger at the same time, one operation each.        *)
(***************************************************************************)
ConcThreads == {t \in Threads : t <= 2}

\* the entry of SKU s is between the two writes of a reserve (lines 121 and
\* 127) or of a release (lines 168 and 171) in the frames c
HalfApplied(c, s) ==
    \E w \in Threads :
        /\ c[w].pc \in {"r_loc", "l_loc"}
        /\ c[w].items[c[w].i].sku = s

\* what a check between its two reads (lines 54 and 57) could read from
\* the ledger stk at this moment, if the entry is not half applied
Snapshot(c, stk, u) ==
    LET s == c[u].items[c[u].i].sku
    IN IF HalfApplied(c, s) \/ c[u].preferred_store \notin DOMAIN stk[s].locations
       THEN {}
       ELSE {<<stk[s].qty, stk[s].locations[c[u].preferred_store]>>}

\* history: collect the snapshots offered to every check that is between
\* its two reads
Observe ==
    snaps' = [u \in Threads |->
                IF call'[u].pc = "c_loc"
                THEN (IF call[u].pc = "c_loc" THEN snaps[u] ELSE {})
                     \cup Snapshot(call', stock', u)
                ELSE snaps[u]]

ConcStores == {"STORE_1", "WAREHOUSE"}

\* handle, lines 26-27: thread t sends a check with a preferred store
ConcCheck(t) ==
    /\ call[t].op = "none"
    /\ \E store \in ConcStores : BeginCheck(t, <<Line(RED, 1, 0)>>, store)
    /\ UNCHANGED <<stock, reservations, lock, now, pre, prev, nops, stock0, snaps, sagaVars>>

\* handle, lines 28-29: thread t sends a reserve
ConcReserve(t) ==
    /\ call[t].op = "none"
    /\ \E q \in 1..MaxQty : BeginReserve(t, ThreadOrder(t), <<Line(RED, q, 0)>>)
    /\ UNCHANGED <<stock, reservations, lock, now, pre, prev, nops, stock0, snaps, sagaVars>>

\* handle, lines 30-31: thread t sends a release of the earlier reservation
ConcRelease(t) ==
    /\ call[t].op = "none"
    /\ BeginRelease(t, PreRid)
    /\ UNCHANGED <<stock, reservations, lock, now, pre, prev, nops, stock0, snaps, sagaVars>>

NextConc ==
    \/ \E t \in ConcThreads : ConcCheck(t)
    \/ \E t \in ConcThreads : ConcReserve(t)
    \/ \E t \in ConcThreads : ConcRelease(t)
    \/ \E t \in ConcThreads :
          LedgerStep(t) /\ Observe /\ UNCHANGED <<pre, prev, nops, stock0, sagaVars>>

SpecConc == Init /\ [][NextConc]_vars

(***************************************************************************)
(* Checkouts run one after another against the orchestrator singleton.     *)
(***************************************************************************)
PRICE == 799

CartSkus == {RED, BLUE, BELT}
CartLines == {Line(s, q, PRICE) : s \in CartSkus, q \in 1..MaxQty} \cup {Line(RED, 1, 0)}
\* lines that leave out the quantity, the SKU or the price
PartialLines ==
    { [sku |-> RED, price |-> PRICE], [qty |-> 1, price |-> PRICE], [sku |-> RED, qty |-> 1] }
Carts ==
    {<<>>} \cup {<<l>> : l \in CartLines \cup PartialLines}
           \cup {<<l1, l2>> : l1 \in {Line(RED, 1, PRICE)}, l2 \in CartLines}

CardPrefix == <<4, 1, 1, 1, 1, 1, 1, 1, 1, 1, 1, 1>>
Card(last4) == Payment("card", CardPrefix \o last4, <<>>, FALSE, FALSE, 1000)
Payments ==
    { Card(<<1, 1, 1, 2>>), Card(<<0, 0, 0, 0>>), Card(<<1, 1, 1, 1>>),
      Payment("upi", <<>>, <<>>, TRUE, FALSE, 1000),
      Payment("gift_card", <<>>, <<>>, FALSE, FALSE, 1000),
      Payment("cheque", <<>>, <<>>, FALSE, FALSE, 1000) }
Cities == {"Bangalore"}
SagaStores == {NoStore, "STORE_1"}

\* a caller invokes checkout_flow (checkout_endpoint, line 118)
Checkout(t) ==
    /\ ncalls < MaxCalls
    /\ Enter(t)
    /\ \E cart \in Carts, payment \in Payments, city \in Cities :
          \E store \in IF Len(cart) = 1 THEN SagaStores ELSE {NoStore} :
             CheckoutStart(t, cart, payment, city, store)
    /\ ncalls' = ncalls + 1
    /\ UNCHANGED <<stock, reservations, lock, now, nops, stock0, snaps,
                   transactions, fulfillments, stores, points>>

\* one step of the checkout_flow frame of thread t
CheckoutStep(t) ==
    \/ CheckoutAfterCheck(t)
    \/ CheckoutAfterReserve(t)
    \/ CheckoutAfterRelease(t)
    \/ CheckoutCapture(t)
    \/ CheckoutCaptureScan(t)
    \/ CheckoutFulfillment(t)
    \/ CheckoutLoyaltyIssue(t)
    \/ CheckoutLoyaltyStore(t)

NextSaga ==
    \/ \E t \in SeqThreads : Checkout(t)
    \/ \E t \in SeqThreads :
          CheckoutStep(t) /\ UNCHANGED <<pre, prev, nops, stock0, snaps, ncalls>>
    \/ \E t \in SeqThreads :
          LedgerStep(t) /\ UNCHANGED <<pre, prev, nops, stock0, snaps, sagaVars>>
    \/ Tick /\ (\A t \in Threads : saga[t].pc \in {"idle", "done"})
            /\ UNCHANGED <<pre, prev, nops, stock0, snaps, sagaVars>>

SpecSaga == Init /\ [][NextSaga]_vars

(***************************************************************************)
(* Two checkouts run concurrently (the endpoint is served by a thread      *)
(* pool) and compete for the units of one SKU that the earlier             *)
(* reservation left.                                                       *)
(***************************************************************************)
\* a caller invokes checkout_flow on a thread that has not run one yet
RaceCheckout(t) ==
    /\ saga[t].pc = "idle"
    /\ Enter(t)
    /\ LET carts ==
               {<<Line(RED, q, PRICE)>> : q \in 1..MaxQty}
                   \cup {<<Line(RED, 1, PRICE), Line(RED, 1, PRICE)>>}
           payments == {Card(<<1, 1, 1, 2>>), Card(<<0, 0, 0, 0>>)}
       IN \E cart \in carts, payment \in payments, city \in Cities :
             CheckoutStart(t, cart, payment, city, NoStore)
    /\ ncalls' = ncalls + 1
    /\ UNCHANGED <<stock, reservations, lock, now, nops, stock0, snaps,
                   transactions, fulfillments, stores, points>>

NextRace ==
    \/ \E t \in ConcThreads : RaceCheckout(t)
    \/ \E t \in ConcThreads :
          CheckoutStep(t) /\ UNCHANGED <<pre, prev, nops, stock0, snaps, ncalls>>
    \/ \E t \in ConcThreads :
          LedgerStep(t) /\ UNCHANGED <<pre, prev, nops, stock0, snaps, sagaVars>>

SpecRace == Init /\ [][NextRace]_vars

(***************************************************************************)
(* Checkouts against an orchestrator whose best-effort collaborators       *)
(* (recommendation, loyalty) may be bound to failing implementations.      *)
(***************************************************************************)
BestEffortCarts ==
    { <<Line(RED, 1, PRICE)>>, <<Line(RED, MaxQty, PRICE)>>, <<Line(RED, 1, 0)>>,
      <<Line(BLUE, 1, PRICE)>> }
BestEffortPayments ==
    { Card(<<1, 1, 1, 2>>), Card(<<0, 0, 0, 0>>), Payment("upi", <<>>, <<>>, TRUE, FALSE, 1000) }

\* a caller invokes checkout_flow (checkout_endpoint, line 118)
BestEffortCheckout(t) ==
    /\ ncalls < MaxCalls
    /\ Enter(t)
    /\ \E cart \in BestEffortCarts, payment \in BestEffortPayments, city \in Cities,
          sub \in SUBSET BestEffortAgents :
             CheckoutStartWith(t, cart, payment, city, NoStore, sub)
    /\ ncalls' = ncalls + 1
    /\ UNCHANGED <<stock, reservations, lock, now, nops, stock0, snaps,
                   transactions, fulfillments, stores, points>>

NextBestEffort ==
    \/ \E t \in SeqThreads : BestEffortCheckout(t)
    \/ \E t \in SeqThreads :
          CheckoutStep(t) /\ UNCHANGED <<pre, prev, nops, stock0, snaps, ncalls>>
    \/ \E t \in SeqThreads :
          LedgerStep(t) /\ UNCHANGED <<pre, prev, nops, stock0, snaps, sagaVars>>

SpecBestEffort == Init /\ [][NextBestEffort]_vars

(***************************************************************************)
(* A checkout, and separate PAYMENT_CAPTURE tasks sent to the payment      *)
(* agent afterwards (the caller re-drives a pending payment).              *)
(***************************************************************************)
\* a caller invokes checkout_flow (checkout_endpoint, line 118)
RedriveCheckout(t) ==
    /\ ncalls < MaxCalls
    /\ Enter(t)
    /\ LET carts ==
               { <<Line(RED, 1, PRICE)>>, <<Line(RED, MaxQty, PRICE)>>,
                 <<Line(BLUE, 1, PRICE)>> }
           payments ==
               { Payment("upi", <<>>, <<>>, TRUE, FALSE, 1000), Card(<<1, 1, 1, 2>>),
                 Card(<<0, 0, 0, 0>>) }
       IN \E cart \in carts, payment \in payments, city \in Cities :
             CheckoutStart(t, cart, payment, city, NoStore)
    /\ ncalls' = ncalls + 1
    /\ UNCHANGED <<stock, reservations, lock, now, nops, stock0, snaps,
                   transactions, fulfillments, stores, points>>

\* a caller sends PAYMENT_CAPTURE to the payment agent (handle, lines
\* 21-22, and _capture)
ApiCapture(t) ==
    /\ nops < MaxOps
    /\ saga[t].pc \in {"idle", "done"}
    /\ Enter(t)
    /\ \E auth_id \in 0..(Len(transactions) + 1) :
          LET r == Capture(transactions, auth_id)
          IN /\ call' = [call EXCEPT ![t] =
                           [IdleCall EXCEPT !.op = "PAYMENT_CAPTURE", !.pc = "done",
                                            !.auth_id = auth_id]]
             /\ result' = [result EXCEPT ![t] =
                             IF r.status = "success" THEN Success(NoRid, <<>>)
                             ELSE Failed(r.code, "", NoRid)]
             /\ transactions' = IF r.status = "success"
                                THEN CaptureTransaction(transactions, auth_id)
                                ELSE transactions
    /\ nops' = nops + 1
    /\ UNCHANGED <<stock, reservations, lock, now, stock0, snaps,
                   saga, fulfillments, stores, points, ncalls>>

NextRedrive ==
    \/ \E t \in SeqThreads : RedriveCheckout(t)
    \/ \E t \in SeqThreads : ApiCapture(t)
    \/ \E t \in SeqThreads :
          CheckoutStep(t) /\ UNCHANGED <<pre, prev, nops, stock0, snaps, ncalls>>
    \/ \E t \in SeqThreads :
          LedgerStep(t) /\ UNCHANGED <<pre, prev, nops, stock0, snaps, sagaVars>>

SpecRedrive == Init /\ [][NextRedrive]_vars

(***************************************************************************)
(* A caller sends tasks to the collaborators directly: FULFILLMENT_CREATE  *)
(* for store pickup, FULFILLMENT_CANCEL and FULFILLMENT_UPDATE_STATUS to   *)
(* the fulfillment agent, LOYALTY_REDEEM to the loyalty agent.             *)
(***************************************************************************)
\* a caller sends FULFILLMENT_CREATE with mode click_and_collect (handle,
\* lines 22-23, and _create)
ApiPickupCreate(t) ==
    /\ nops < MaxTasks
    /\ Enter(t)
    /\ \E store_id \in {NoStore, "STORE_1", "STORE_2", "STORE_9"} :
          LET PickupItems == <<Line(RED, 1, 0)>>
              r == PickupCreate(stores, "o1", PickupItems, store_id)
              sid == PickStore(stores, store_id)
          IN /\ call' = [call EXCEPT ![t] =
                           [IdleCall EXCEPT !.op = "FULFILLMENT_CREATE", !.pc = "done",
                                            !.order_id = "o1", !.items = PickupItems,
                                            !.preferred_store = store_id]]
             /\ result' = [result EXCEPT ![t] =
                             IF r.status = "success" THEN Success(NoRid, PickupItems)
                             ELSE IF r.status = "raised" THEN Raised(r.code)
                             ELSE Failed(r.code, "", NoRid)]
             /\ stores' = IF r.status = "success" THEN [stores EXCEPT ![sid] = @ - 1]
                          ELSE stores
             /\ fulfillments' = IF r.status = "success"
                                THEN Append(fulfillments, PickupRecord("o1", PickupItems, sid))
                                ELSE fulfillments
    /\ nops' = nops + 1
    /\ UNCHANGED <<stock, reservations, lock, now, stock0, snaps,
                   saga, transactions, points, ncalls>>

\* a caller sends FULFILLMENT_CANCEL (handle, lines 26-27, and _cancel)
ApiPickupCancel(t) ==
    /\ nops < MaxTasks
    /\ Enter(t)
    /\ \E fid \in 0..Len(fulfillments) :
          LET r == Cancel(fulfillments, fid)
          IN /\ call' = [call EXCEPT ![t] =
                           [IdleCall EXCEPT !.op = "FULFILLMENT_CANCEL", !.pc = "done",
                                            !.auth_id = fid]]
             /\ result' = [result EXCEPT ![t] =
                             IF r.status = "success" THEN Success(NoRid, <<>>)
                             ELSE Failed(r.code, "", NoRid)]
             /\ fulfillments' = IF r.status = "success"
                                THEN [fulfillments EXCEPT ![fid].status = "CANCELLED",
                                                          ![fid].cancelled = TRUE]
                                ELSE fulfillments
             /\ stores' = IF r.status = "success"
                          THEN GiveBackCapacity(stores, fulfillments[fid])
                          ELSE stores
    /\ nops' = nops + 1
    /\ UNCHANGED <<stock, reservations, lock, now, stock0, snaps,
                   saga, transactions, points, ncalls>>

\* a caller sends FULFILLMENT_UPDATE_STATUS (handle, lines 24-25, and
\* _update_status, lines 108-117): the status of a stored record, cancelled
\* or not, is overwritten with the payload's
ApiUpdateStatus(t) ==
    /\ nops < MaxTasks
    /\ Enter(t)
    /\ \E fid \in 0..Len(fulfillments), new_status \in {"PICKED_UP", "READY_SOON"} :
          LET found == fid \in 1..Len(fulfillments)
          IN /\ call' = [call EXCEPT ![t] =
                           [IdleCall EXCEPT !.op = "FULFILLMENT_UPDATE_STATUS",
                                            !.pc = "done", !.auth_id = fid]]
             /\ result' = [result EXCEPT ![t] =
                             IF found THEN Success(NoRid, <<>>)
                             ELSE Failed("FULFILLMENT_NOT_FOUND", "", NoRid)]
             /\ fulfillments' = IF found
                                THEN [fulfillments EXCEPT ![fid].status = new_status]
                                ELSE fulfillments
    /\ nops' = nops + 1
    /\ UNCHANGED <<stock, reservations, lock, now, stock0, snaps,
                   saga, transactions, stores, points, ncalls>>

\* a caller sends LOYALTY_REDEEM for a customer (LoyaltyAgent.handle, lines
\* 26-27, and _redeem, lines 66-83): 100 points per unit redeemed
ApiRedeem(t) ==
    /\ nops < MaxTasks
    /\ Enter(t)
    /\ \E cid \in {"cust_001", "cust_002", "cust_999"}, amount_to_redeem \in {0, 1, 12} :
          LET current == IF cid \in DOMAIN points THEN points[cid] ELSE 0
              points_needed == amount_to_redeem * 100
              code == IF amount_to_redeem <= 0 THEN "INVALID_REDEEM"
                      ELSE IF current < points_needed THEN "INSUFFICIENT_POINTS"
                      ELSE ""
          IN /\ call' = [call EXCEPT ![t] =
                           [IdleCall EXCEPT !.op = "LOYALTY_REDEEM", !.pc = "done"]]
             /\ result' = [result EXCEPT ![t] =
                             IF code = "" THEN Success(NoRid, <<>>)
                             ELSE Failed(code, "", NoRid)]
             /\ points' = IF code = ""
                          THEN (cid :> (current - points_needed)) @@ points
                          ELSE points
    /\ nops' = nops + 1
    /\ UNCHANGED <<stock, reservations, lock, now, stock0, snaps,
                   saga, transactions, fulfillments, stores, ncalls>>

NextPickup ==
    \/ \E t \in SeqThreads : ApiPickupCreate(t)
    \/ \E t \in SeqThreads : ApiPickupCancel(t)
    \/ \E t \in SeqThreads : ApiUpdateStatus(t)
    \/ \E t \in SeqThreads : ApiRedeem(t)

SpecPickup == Init /\ [][NextPickup]_vars

(***************************************************************************)
(* One caller sends reserves whose line quantity is any integer near zero  *)
(* (int(it["qty"]) accepts negative numbers and zero), and releases.       *)
(***************************************************************************)
\* a caller sends INVENTORY_RESERVE (handle, lines 28-29)
SignedReserve(t) ==
    /\ nops < MaxOps
    /\ Enter(t)
    /\ \E s \in {RED, JEANS}, q \in {0 - 1, 0, 1} : BeginReserve(t, "o1", <<Line(s, q, 0)>>)
    /\ nops' = nops + 1
    /\ UNCHANGED <<stock, reservations, lock, now, stock0, snaps, sagaVars>>

\* a caller sends INVENTORY_RELEASE (handle, lines 30-31) for a stored
\* reservation
SignedRelease(t) ==
    /\ nops < MaxOps
    /\ Enter(t)
    /\ \E rid \in DOMAIN reservations : BeginRelease(t, rid)
    /\ nops' = nops + 1
    /\ UNCHANGED <<stock, reservations, lock, now, stock0, snaps, sagaVars>>

NextSigned ==
    \/ \E t \in SeqThreads : SignedReserve(t)
    \/ \E t \in SeqThreads : SignedRelease(t)
    \/ \E t \in SeqThreads :
          LedgerStep(t) /\ UNCHANGED <<pre, prev, nops, stock0, snaps, sagaVars>>
    \/ Tick /\ (\A t \in Threads : Free(t))
            /\ UNCHANGED <<pre, prev, nops, stock0, snaps, sagaVars>>

SpecSigned == Init /\ [][NextSigned]_vars

(***************************************************************************)
(* A checkout, the passing of time, and PAYMENT_CAPTURE and PAYMENT_REFUND *)
(* tasks sent to the payment agent by a caller.                            *)
(***************************************************************************)
\* a caller invokes checkout_flow (checkout_endpoint, line 118)
TxCheckout(t) ==
    /\ ncalls < MaxCalls
    /\ Enter(t)
    /\ LET carts == {<<Line(RED, 1, PRICE)>>}
           payments ==
               { Payment("upi", <<>>, <<>>, TRUE, FALSE, 1000), Card(<<1, 1, 1, 2>>),
                 Card(<<0, 0, 0, 0>>) }
       IN \E cart \in carts, payment \in payments, city \in Cities :
             CheckoutStart(t, cart, payment, city, NoStore)
    /\ ncalls' = ncalls + 1
    /\ UNCHANGED <<stock, reservations, lock, now, nops, stock0, snaps,
                   transactions, fulfillments, stores, points>>

\* a caller sends PAYMENT_REFUND to the payment agent (handle, lines
\* 24-25, and _refund)
ApiRefund(t) ==
    /\ nops < MaxOps
    /\ saga[t].pc \in {"idle", "done"}
    /\ Enter(t)
    /\ \E tx_id \in 0..(Len(transactions) + 1) :
          LET r == Refund(transactions, tx_id)
          IN /\ call' = [call EXCEPT ![t] =
                           [IdleCall EXCEPT !.op = "PAYMENT_REFUND", !.pc = "done",
                                            !.auth_id = tx_id]]
             /\ result' = [result EXCEPT ![t] =
                             IF r.status = "success" THEN Success(NoRid, <<>>)
                             ELSE Failed(r.code, "", NoRid)]
             /\ transactions' = IF r.status = "success"
                                THEN [transactions EXCEPT ![tx_id].refunds = @ + 1]
                                ELSE transactions
    /\ nops' = nops + 1
    /\ UNCHANGED <<stock, reservations, lock, now, stock0, snaps,
                   saga, fulfillments, stores, points, ncalls>>

NextTx ==
    \/ \E t \in SeqThreads : TxCheckout(t)
    \/ \E t \in SeqThreads : ApiCapture(t)
    \/ \E t \in SeqThreads : ApiRefund(t)
    \/ \E t \in SeqThreads :
          CheckoutStep(t) /\ UNCHANGED <<pre, prev, nops, stock0, snaps, ncalls>>
    \/ \E t \in SeqThreads :
          LedgerStep(t) /\ UNCHANGED <<pre, prev, nops, stock0, snaps, sagaVars>>
    \/ Tick /\ (\A t \in Threads : Free(t) /\ saga[t].pc \in {"idle", "done"})
            /\ UNCHANGED <<pre, prev, nops, stock0, snaps, sagaVars>>

SpecTx == Init /\ [][NextTx]_vars

(***************************************************************************)
(* Checkouts with the addresses a request can carry: a city in the fast    *)
(* delivery list, another city, no city, and a city that is not a string.  *)
(***************************************************************************)
\* a caller invokes checkout_flow (checkout_endpoint, lines 114-118)
AddressCheckout(t) ==
    /\ ncalls < MaxCalls
    /\ Enter(t)
    /\ LET carts ==
               { <<Line(RED, 1, PRICE)>>, <<Line(RED, MaxQty, PRICE)>>, <<Line(RED, 1, 0)>> }
           payments ==
               { Card(<<1, 1, 1, 2>>), Card(<<0, 0, 0, 0>>),
                 Payment("upi", <<>>, <<>>, TRUE, FALSE, 1000),
                 Payment("gift_card", <<>>, <<>>, FALSE, FALSE, 1000) }
           cities == {"Bangalore", "Pune", "", NonStringCity}
       IN \E cart \in carts, payment \in payments, city \in cities :
             CheckoutStart(t, cart, payment, city, NoStore)
    /\ ncalls' = ncalls + 1
    /\ UNCHANGED <<stock, reservations, lock, now, nops, stock0, snaps,
                   transactions, fulfillments, stores, points>>

NextAddress ==
    \/ \E t \in SeqThreads : AddressCheckout(t)
    \/ \E t \in SeqThreads :
          CheckoutStep(t) /\ UNCHANGED <<pre, prev, nops, stock0, snaps, ncalls>>
    \/ \E t \in SeqThreads :
          LedgerStep(t) /\ UNCHANGED <<pre, prev, nops, stock0, snaps, sagaVars>>

SpecAddress == Init /\ [][NextAddress]_vars

(***************************************************************************)
(* A checkout, the passing of time, and explicit INVENTORY_RELEASE tasks   *)
(* sent to the inventory agent by a caller.                                *)
(***************************************************************************)
\* a caller invokes checkout_flow (checkout_endpoint, line 118)
HoldCheckout(t) ==
    /\ ncalls < MaxCalls
    /\ Enter(t)
    /\ LET carts == {<<Line(RED, 1, PRICE)>>, <<Line(RED, MaxQty, PRICE)>>}
           payments ==
               { Payment("upi", <<>>, <<>>, TRUE, FALSE, 1000), Card(<<1, 1, 1, 2>>),
                 Card(<<0, 0, 0, 0>>) }
       IN \E cart \in carts, payment \in payments, city \in Cities :
             CheckoutStart(t, cart, payment, city, NoStore)
    /\ ncalls' = ncalls + 1
    /\ UNCHANGED <<stock, reservations, lock, now, nops, stock0, snaps,
                   transactions, fulfillments, stores, points>>

\* a caller sends INVENTORY_RELEASE (handle, lines 30-31) for a stored
\* reservation or without an id
HoldRelease(t) ==
    /\ nops < MaxOps
    /\ saga[t].pc \in {"idle", "done"}
    /\ Enter(t)
    /\ \E rid \in DOMAIN reservations \cup {NoRid} : BeginRelease(t, rid)
    /\ nops' = nops + 1
    /\ UNCHANGED <<stock, reservations, lock, now, stock0, snaps, sagaVars>>

NextHold ==
    \/ \E t \in SeqThreads : HoldCheckout(t)
    \/ \E t \in SeqThreads : HoldRelease(t)
    \/ \E t \in SeqThreads :
          CheckoutStep(t) /\ UNCHANGED <<pre, prev, nops, stock0, snaps, ncalls>>
    \/ \E t \in SeqThreads :
          LedgerStep(t) /\ UNCHANGED <<pre, prev, nops, stock0, snaps, sagaVars>>
    \/ Tick /\ (\A t \in Threads : Free(t) /\ saga[t].pc \in {"idle", "done"})
            /\ UNCHANGED <<pre, prev, nops, stock0, snaps, sagaVars>>

SpecHold == Init /\ [][NextHold]_vars

(***************************************************************************)
(* Every thread sends one reserve or one release, the calls run            *)
(* concurrently, and the scheduler keeps running every thread that can     *)
(* take a step (a thread blocked on the lock cannot).                      *)
(***************************************************************************)
\* the callers: three threads, so that a call can wait behind two others
LiveThreads == {t \in Threads : t <= 3}

\* handle, lines 28-29: thread t sends a reserve
LiveReserve(t) ==
    /\ call[t].op = "none"
    /\ \E items \in {<<Line(RED, q, 0)>> : q \in 1..MaxQty} \cup {<<[sku |-> RED]>>} :
          BeginReserve(t, ThreadOrder(t), items)
    /\ UNCHANGED <<stock, reservations, lock, now, pre, prev, nops, stock0, snaps, sagaVars>>

\* handle, lines 30-31: thread t sends a release of the earlier reservation
LiveRelease(t) ==
    /\ call[t].op = "none"
    /\ BeginRelease(t, PreRid)
    /\ UNCHANGED <<stock, reservations, lock, now, pre, prev, nops, stock0, snaps, sagaVars>>

\* thread t runs the next step of its handler
LiveStep(t) ==
    LedgerStep(t) /\ UNCHANGED <<pre, prev, nops, stock0, snaps, sagaVars>>

NextLive ==
    \/ \E t \in LiveThreads : LiveReserve(t)
    \/ \E t \in LiveThreads : LiveRelease(t)
    \/ \E t \in LiveThreads : LiveStep(t)

SpecLive == Init /\ [][NextLive]_vars /\ \A t \in LiveThreads : WF_vars(LiveStep(t))

(***************************************************************************)
\* every call that was started has returned
Quiescent == \A t \in Threads : Free(t)

\* the quantity of SKU s on the lines of an item list
RECURSIVE SumLines(_, _)
SumLines(items, s) ==
    IF items = <<>> THEN 0
    ELSE (IF GetSku(Head(items)) = s THEN GetQty(Head(items)) ELSE 0)
         + SumLines(Tail(items), s)

RECURSIVE SumHeldOver(_, _, _)
SumHeldOver(res, rids, s) ==
    IF rids = {} THEN 0
    ELSE LET r == CHOOSE x \in rids : TRUE
         IN SumLines(res[r], s) + SumHeldOver(res, rids \ {r}, s)

\* the quantity of SKU s held by the reservations of a store
HeldQty(res, s) == SumHeldOver(res, DOMAIN res, s)

RECURSIVE SumOver(_, _)
SumOver(f, keys) ==
    IF keys = {} THEN 0
    ELSE LET k == CHOOSE x \in keys : TRUE IN f[k] + SumOver(f, keys \ {k})

\* the sum of a locations mapping
SumLocations(locs) == SumOver(locs, DOMAIN locs)

MinOf(a, b) == IF a <= b THEN a ELSE b

(***************************************************************************)
(* C1 (as claimed): stock conservation.  Whenever all reserve/release      *)
(* calls have completed, each SKU's total plus the quantity held for it by *)
(* the reservations in the store equals the quantity it was constructed    *)
(* with.                                                                   *)
(***************************************************************************)
C1_StockConservation ==
    Quiescent =>
        \A s \in DOMAIN stock :
            stock[s].qty + HeldQty(reservations, s) = InitStock[s].qty

(***************************************************************************)
(* C2: N concurrent one-unit reserves of a SKU with quantity Q end with    *)
(* min(N, Q) successes, N - min(N, Q) INSUFFICIENT_STOCK failures and the  *)
(* quantity Q - min(N, Q); a thread validates and decrements only while it *)
(* holds the lock.                                                         *)
(***************************************************************************)
C2_ConcurrentReserve ==
    /\ \A t \in Threads :
          call[t].pc \in {"r_val", "r_qty", "r_loc", "r_store"} => lock = t
    /\ (\A t \in Threads : call[t].pc = "done") =>
          LET s == call[CHOOSE t \in Threads : TRUE].items[1].sku
              Q == stock0[s].qty
              m == MinOf(NThreads, Q)
              ok == {t \in Threads : result[t].status = "success"}
              short == {t \in Threads : /\ result[t].status = "failed"
                                        /\ result[t].code = "INSUFFICIENT_STOCK"}
          IN /\ Cardinality(ok) = m
             /\ Cardinality(short) = NThreads - m
             /\ stock[s].qty = Q - m

\* all calls returned, some with success and some with INSUFFICIENT_STOCK
C2_Witness ==
    /\ \A t \in Threads : call[t].pc = "done" /\ call[t].op = "INVENTORY_RESERVE"
    /\ \E t \in Threads : result[t].status = "success"
    /\ \E t \in Threads : result[t].code = "INSUFFICIENT_STOCK"

(***************************************************************************)
(* C3: a reserve that returns INSUFFICIENT_STOCK leaves every total, every *)
(* location quantity and the reservation store as they were when the call  *)
(* began.                                                                  *)
(***************************************************************************)
C3_ReserveAtomic ==
    \A t \in Threads :
        (/\ call[t].pc = "done"
         /\ call[t].op = "INVENTORY_RESERVE"
         /\ result[t].code = "INSUFFICIENT_STOCK")
        => /\ result[t].status = "failed"
           /\ stock = pre[t].stock
           /\ reservations = pre[t].reservations

\* a two-line reserve failed on its second line, the first being sufficient
C3_Witness ==
    \E t \in Threads :
        /\ call[t].pc = "done"
        /\ call[t].op = "INVENTORY_RESERVE"
        /\ result[t].code = "INSUFFICIENT_STOCK"
        /\ Len(call[t].items) = 2
        /\ ~Insufficient(pre[t].stock, call[t].items[1])
        /\ Insufficient(pre[t].stock, call[t].items[2])

(***************************************************************************)
(* C4: release is one-shot.  A release of a held reservation succeeds,     *)
(* removes the record and credits its quantities to the totals; a second   *)
(* release of the same id, issued next, fails with INVALID_RESERVATION and *)
(* changes nothing, so the stock has been credited exactly once.           *)
(***************************************************************************)
C4_ReleaseOneShot ==
    \A t \in Threads :
        (call[t].pc = "done" /\ call[t].op = "INVENTORY_RELEASE") =>
            /\ call[t].rid \in DOMAIN pre[t].reservations =>
                  /\ result[t].status = "success"
                  /\ call[t].rid \notin DOMAIN reservations
                  /\ \A s \in DOMAIN stock :
                        stock[s].qty = pre[t].stock[s].qty
                                       + SumLines(pre[t].reservations[call[t].rid], s)
            /\ (/\ prev[t].op = "INVENTORY_RELEASE"
                /\ prev[t].status = "success"
                /\ prev[t].rid = call[t].rid) =>
                  /\ result[t].status = "failed"
                  /\ result[t].code = "INVALID_RESERVATION"
                  /\ stock = pre[t].stock
                  /\ reservations = pre[t].reservations
                  /\ \A s \in DOMAIN stock :
                        stock[s].qty = prev[t].stock[s].qty + SumLines(prev[t].items, s)

\* the second of two consecutive releases of one reservation id has returned
C4_Witness ==
    \E t \in Threads :
        /\ call[t].pc = "done"
        /\ call[t].op = "INVENTORY_RELEASE"
        /\ prev[t].op = "INVENTORY_RELEASE"
        /\ prev[t].status = "success"
        /\ prev[t].rid = call[t].rid
        /\ prev[t].items # <<>>

(***************************************************************************)
(* C5 (as claimed): every SKU total and every location quantity is >= 0 in *)
(* every reachable state, for requests whose line quantities are positive. *)
(***************************************************************************)
C5_NonNegative ==
    \A s \in DOMAIN stock :
        /\ stock[s].qty >= 0
        /\ \A l \in DOMAIN stock[s].locations : stock[s].locations[l] >= 0

(***************************************************************************)
(* C6 (as claimed): whenever every reserve and release has completed, each *)
(* SKU's total equals the sum of its locations mapping.                    *)
(***************************************************************************)
C6_QtyIsSumOfLocations ==
    Quiescent =>
        \A s \in DOMAIN stock : stock[s].qty = SumLocations(stock[s].locations)

\* the call of thread t has returned its terminal result
Returned(t) == saga[t].pc = "done"

\* how many tasks of a type the call has issued
Issued(t, type) == Cardinality({k \in 1..Len(saga[t].issued) : saga[t].issued[k] = type})

CartSkuSet(cart) == {GetSku(cart[k]) : k \in 1..Len(cart)}

\* C7: payment-failure compensation.  When a checkout's reserve succeeded
\* and PAYMENT_AUTHORIZE returned failed, the call returns status failed
\* with reason payment_failed, every cart SKU's total is back at its value
\* before the call, and the reservation the call took is no longer held
\* (checkouts run one at a time: no other ledger operation interleaves).
C7_PaymentFailureCompensation ==
    \A t \in Threads :
        (Returned(t) /\ saga[t].reserve = "success" /\ saga[t].pay = "failed") =>
            /\ saga[t].out.status = "failed"
            /\ saga[t].out.reason = "payment_failed"
            /\ \A s \in CartSkuSet(saga[t].cart) : stock[s].qty = pre[t].stock[s].qty
            /\ saga[t].reservation_id \notin DOMAIN reservations

\* a checkout whose payment was refused after stock had been deducted has
\* returned, its release having succeeded
C7_Witness ==
    \E t \in Threads :
        /\ Returned(t) /\ saga[t].reserve = "success" /\ saga[t].pay = "failed"
        /\ saga[t].release = "success"
        /\ saga[t].reservation_id \notin DOMAIN pre[t].reservations
        /\ \E s \in CartSkuSet(saga[t].cart) : pre[t].stock[s].qty > 0

\* C8: exactly one compensation edge.  A checkout never issues more than
\* one INVENTORY_RELEASE; a release is issued only after PAYMENT_AUTHORIZE
\* returned failed, and a returned call whose authorization failed has
\* issued one; a call that ended on a failed check, reserve, capture or
\* fulfillment, on a failed loyalty issue or on a pending payment has
\* issued none.
C8_OneCompensationEdge ==
    \A t \in Threads :
        /\ Issued(t, "INVENTORY_RELEASE") <= 1
        /\ Issued(t, "INVENTORY_RELEASE") = 1 => saga[t].pay = "failed"
        /\ Returned(t) =>
             /\ saga[t].pay = "failed" <=> Issued(t, "INVENTORY_RELEASE") = 1
             /\ ( \/ saga[t].out.reason \in {"inventory_unavailable", "reserve_failed",
                                             "capture_failed", "fulfillment_failed"}
                  \/ saga[t].out.status = "pending"
                  \/ saga[t].loy_issue = "failed" )
                => Issued(t, "INVENTORY_RELEASE") = 0

\* a returned checkout whose authorization failed and whose last task was
\* the one release it issued
C8_Witness ==
    \E t \in Threads :
        /\ Returned(t) /\ saga[t].pay = "failed"
        /\ saga[t].issued[Len(saga[t].issued)] = "INVENTORY_RELEASE"
        /\ Issued(t, "INVENTORY_RELEASE") = 1

\* every cart SKU is stocked for the whole cart
Sufficient(stk, cart) ==
    \A s \in CartSkuSet(cart) : s \in DOMAIN stk /\ stk[s].qty >= SumLines(cart, s)

\* C9: success path.  When every cart SKU had sufficient stock and payment
\* authorization, capture and fulfillment all succeeded, the checkout
\* returns status success with its order id, each cart SKU's total is down
\* by exactly the cart quantity, and the call created exactly one
\* reservation, which is still held.
C9_SuccessPath ==
    \A t \in Threads :
        ( /\ Returned(t)
          /\ Sufficient(pre[t].stock, saga[t].cart)
          /\ saga[t].pay = "success"
          /\ saga[t].capture = "success"
          /\ saga[t].fulfillment = "success" ) =>
            /\ saga[t].out.status = "success"
            /\ saga[t].out.order_id = saga[t].order_id
            /\ saga[t].out.order_id # NoOrder
            /\ "order_id" \in saga[t].out.keys
            /\ \A s \in CartSkuSet(saga[t].cart) :
                  stock[s].qty = pre[t].stock[s].qty - SumLines(saga[t].cart, s)
            /\ DOMAIN reservations \ DOMAIN pre[t].reservations = {saga[t].reservation_id}
            /\ \A r \in DOMAIN pre[t].reservations :
                  r \in DOMAIN reservations /\ reservations[r] = pre[t].reservations[r]
            /\ reservations[saga[t].reservation_id] = saga[t].cart
            /\ Issued(t, "INVENTORY_RELEASE") = 0

\* a checkout of a stocked cart has returned success
C9_Witness ==
    \E t \in Threads :
        /\ Returned(t) /\ saga[t].out.status = "success"
        /\ Sufficient(pre[t].stock, saga[t].cart)
        /\ saga[t].pay = "success" /\ saga[t].capture = "success"
        /\ saga[t].fulfillment = "success"
        /\ Len(saga[t].cart) = 2

\* C10: unavailable stock.  When the INVENTORY_CHECK of a checkout reports
\* a cart line unavailable, the call returns status failed with reason
\* inventory_unavailable, it issues no reserve and no payment task, so it
\* creates no reservation, and the ledger's stock and reservation store
\* are as they were before the call.
C10_UnavailableStock ==
    \A t \in Threads :
        (Returned(t) /\ saga[t].inv = "failed") =>
            /\ saga[t].out.status = "failed"
            /\ saga[t].out.reason = "inventory_unavailable"
            /\ saga[t].issued = <<"INVENTORY_CHECK">>
            /\ Issued(t, "INVENTORY_RESERVE") = 0
            /\ Issued(t, "PAYMENT_AUTHORIZE") = 0 /\ Issued(t, "PAYMENT_CAPTURE") = 0
            /\ stock = pre[t].stock
            /\ reservations = pre[t].reservations

\* a checkout of an unknown SKU, and one of a SKU out of stock, has been
\* turned down by the check
C10_Witness ==
    \E t \in Threads :
        /\ Returned(t) /\ saga[t].inv = "failed"
        /\ \E k \in 1..Len(saga[t].cart) :
              \/ GetSku(saga[t].cart[k]) \notin DOMAIN stock
              \/ stock[GetSku(saga[t].cart[k])].qty = 0

\* the reservation the call took is held with the cart's lines, and every
\* cart SKU's total is its value before the call less the cart quantity
HeldAndDeducted(t) ==
    /\ saga[t].reservation_id \in DOMAIN reservations
    /\ reservations[saga[t].reservation_id] = saga[t].cart
    /\ \A s \in CartSkuSet(saga[t].cart) :
          stock[s].qty = pre[t].stock[s].qty - SumLines(saga[t].cart, s)

\* C11: pending payment.  When PAYMENT_AUTHORIZE returned pending the call
\* stops with status pending: PAYMENT_AUTHORIZE was issued once and was the
\* last task (no retry, no poll), no PAYMENT_CAPTURE, FULFILLMENT_CREATE,
\* LOYALTY_ISSUE or INVENTORY_RELEASE is issued, and on return the
\* reservation is still held and the stock still deducted.
C11_PendingPayment ==
    \A t \in Threads :
        /\ saga[t].pay = "pending" =>
             /\ saga[t].pc = "done"
             /\ Issued(t, "PAYMENT_AUTHORIZE") = 1
             /\ saga[t].issued[Len(saga[t].issued)] = "PAYMENT_AUTHORIZE"
             /\ Issued(t, "PAYMENT_CAPTURE") = 0
             /\ Issued(t, "FULFILLMENT_CREATE") = 0
             /\ Issued(t, "LOYALTY_ISSUE") = 0
             /\ Issued(t, "INVENTORY_RELEASE") = 0
        /\ (Returned(t) /\ saga[t].pay = "pending") =>
             /\ saga[t].out.status = "pending"
             /\ HeldAndDeducted(t)

\* a UPI checkout has returned pending, its collect request recorded
C11_Witness ==
    \E t \in Threads :
        /\ Returned(t) /\ saga[t].pay = "pending" /\ saga[t].out.status = "pending"
        /\ saga[t].payment.method = "upi"
        /\ saga[t].auth_id \in 1..Len(transactions)
        /\ transactions[saga[t].auth_id].status = "PENDING"

\* C12: compensation gap.  When PAYMENT_CAPTURE fails the call returns
\* failed / capture_failed, when FULFILLMENT_CREATE fails it returns
\* failed / fulfillment_failed; in both cases no release was issued, the
\* reservation is still held and the stock still deducted, and after a
\* fulfillment failure the payment transaction is still CAPTURED (no
\* refund task is issued).
C12_CompensationGap ==
    \A t \in Threads :
        /\ (Returned(t) /\ saga[t].capture = "failed") =>
             /\ saga[t].out.status = "failed"
             /\ saga[t].out.reason = "capture_failed"
             /\ Issued(t, "INVENTORY_RELEASE") = 0
             /\ HeldAndDeducted(t)
        /\ (Returned(t) /\ saga[t].fulfillment = "failed") =>
             /\ saga[t].out.status = "failed"
             /\ saga[t].out.reason = "fulfillment_failed"
             /\ Issued(t, "INVENTORY_RELEASE") = 0
             /\ Issued(t, "PAYMENT_REFUND") = 0
             /\ HeldAndDeducted(t)
             /\ saga[t].auth_id \in 1..Len(transactions)
             /\ transactions[saga[t].auth_id].status = "CAPTURED"

\* a checkout whose payment was captured has returned fulfillment_failed
C12_Witness ==
    \E t \in Threads :
        /\ Returned(t) /\ saga[t].fulfillment = "failed" /\ saga[t].capture = "success"
        /\ saga[t].out.reason = "fulfillment_failed"
        /\ \E s \in CartSkuSet(saga[t].cart) : stock[s].qty < pre[t].stock[s].qty

\* C14: no unhandled faults.  Whatever the cart (lines may leave out sku,
\* qty or price, as INVENTORY_CHECK tolerates) and whatever the
\* collaborators answer, checkout_flow, INVENTORY_RESERVE and
\* INVENTORY_RELEASE end by returning a structured result: no handler and
\* no checkout ends in a raised exception.
C14_NoUnhandledFaults ==
    \A t \in Threads :
        /\ result[t].status # "raised"
        /\ saga[t].out.status # "raised"

\* the status and reason that the responses of the required steps determine
OutcomeOf(inv, reserve, pay, capture, fulfillment) ==
    IF inv # "success" THEN <<"failed", "inventory_unavailable">>
    ELSE IF reserve # "success" THEN <<"failed", "reserve_failed">>
    ELSE IF pay = "failed" THEN <<"failed", "payment_failed">>
    ELSE IF pay = "pending" THEN <<"pending", "">>
    ELSE IF capture # "success" THEN <<"failed", "capture_failed">>
    ELSE IF fulfillment # "success" THEN <<"failed", "fulfillment_failed">>
    ELSE <<"success", "">>

\* C13: single terminal outcome.  A checkout that has ended has returned
\* one result whose status is success, pending or failed; a failed result
\* carries one of the five reasons, a success result carries the order id,
\* and status and reason are a function of the responses of the
\* collaborators (the same responses always give the same status and
\* reason).
C13_SingleTerminalOutcome ==
    \A t \in Threads :
        Returned(t) =>
            /\ saga[t].out.status \in {"success", "pending", "failed"}
            /\ saga[t].out.status = "failed" =>
                 saga[t].out.reason \in {"inventory_unavailable", "reserve_failed",
                                         "payment_failed", "capture_failed",
                                         "fulfillment_failed"}
            /\ saga[t].out.status = "success" =>
                 /\ saga[t].out.order_id = saga[t].order_id
                 /\ "order_id" \in saga[t].out.keys
            /\ <<saga[t].out.status, saga[t].out.reason>> =
                 OutcomeOf(saga[t].inv, saga[t].reserve, saga[t].pay,
                           saga[t].capture, saga[t].fulfillment)

\* C15: mutual exclusion.  Whenever a reserve or a release is about to
\* read or write the stock map or the reservation store, it holds the
\* inventory lock; so no reserve or release touches that state while
\* another one is inside its own locked section.
C15_MutualExclusion ==
    \A t \in Threads :
        call[t].pc \in {"r_val", "r_qty", "r_loc", "r_store", "l_pop", "l_qty", "l_loc"}
            => lock = t

\* C16: consistent check snapshot.  For every entry of a check's response
\* that reports a store quantity, the reported (total, store quantity)
\* pair is a pair the ledger actually held, not half applied, at some
\* moment between the check's two reads.
C16_ConsistentCheckSnapshot ==
    \A t \in Threads :
        call[t].op = "INVENTORY_CHECK" =>
            \A k \in 1..Len(call[t].resp) :
                call[t].resp[k].has_store =>
                    <<call[t].resp[k].available_qty, call[t].resp[k].store_qty>> \in snaps[t]

\* C17: check is a pure read.  From its start to its return an
\* INVENTORY_CHECK leaves every stock quantity, location quantity and
\* reservation as it was; its result carries no error entry, has one
\* response entry per requested line, and reports a SKU the ledger does
\* not know as available = false with available_qty 0.
C17_CheckIsPureRead ==
    \A t \in Threads :
        call[t].op = "INVENTORY_CHECK" =>
            /\ stock = pre[t].stock
            /\ reservations = pre[t].reservations
            /\ call[t].pc = "done" =>
                 /\ result[t].status \in {"success", "failed"}
                 /\ result[t].code = ""
                 /\ Len(result[t].items) = Len(call[t].items)
                 /\ \A k \in 1..Len(call[t].items) :
                       GetSku(call[t].items[k]) \notin DOMAIN stock =>
                           /\ ~result[t].items[k].available
                           /\ result[t].items[k].available_qty = 0

\* a check of a SKU the ledger does not know has returned
C17_Witness ==
    \E t \in Threads :
        /\ call[t].op = "INVENTORY_CHECK" /\ call[t].pc = "done"
        /\ Len(call[t].items) = 1
        /\ call[t].items[1].sku \notin DOMAIN stock
        /\ result[t].status = "failed"

\* C18: replayed reserve.  When the second of two consecutive successful
\* reserves with one order id has returned, the two calls have returned
\* two distinct reservation ids, both are in the reservation store, and
\* each holds the items of its own call (so each can be released on its
\* own and restores its own quantities).
C18_ReplayedReserve ==
    \A t \in Threads :
        ( /\ call[t].pc = "done" /\ call[t].op = "INVENTORY_RESERVE"
          /\ result[t].status = "success"
          /\ prev[t].op = "INVENTORY_RESERVE" /\ prev[t].status = "success"
          /\ prev[t].rid[1] = call[t].order_id ) =>
            /\ result[t].rid # prev[t].rid
            /\ prev[t].rid \in DOMAIN reservations
            /\ result[t].rid \in DOMAIN reservations
            /\ reservations[prev[t].rid] = prev[t].items
            /\ reservations[result[t].rid] = call[t].items

\* C19: check-then-reserve race.  With two checkouts running concurrently
\* on the last units of a SKU, no quantity of the ledger ever goes below
\* zero, the reservations never hold more units of a SKU than the ledger
\* had, and a checkout whose reserve did not succeed returns failed with
\* reason reserve_failed (inventory_unavailable when its check failed).
C19_CheckThenReserveRace ==
    /\ \A s \in DOMAIN stock :
          /\ stock[s].qty >= 0
          /\ \A l \in DOMAIN stock[s].locations : stock[s].locations[l] >= 0
          /\ HeldQty(reservations, s) <= InitStock[s].qty
    /\ \A t \in Threads :
          saga[t].pc = "done" =>
             /\ saga[t].inv # "success" =>
                   saga[t].out.status = "failed"
                       /\ saga[t].out.reason = "inventory_unavailable"
             /\ (saga[t].inv = "success" /\ saga[t].reserve # "success") =>
                   saga[t].out.status = "failed"
                       /\ saga[t].out.reason = "reserve_failed"

\* the required steps of the pipeline, in their order
RequiredSteps ==
    <<"INVENTORY_CHECK", "INVENTORY_RESERVE", "PAYMENT_AUTHORIZE",
      "PAYMENT_CAPTURE", "FULFILLMENT_CREATE">>

IsRequired(type) == \E k \in 1..Len(RequiredSteps) : RequiredSteps[k] = type

\* the required steps a call has issued so far, in the order it issued them
RequiredIssued(t) == SelectSeq(saga[t].issued, IsRequired)

\* C20: pipeline order.  The required steps a checkout has issued are
\* always a prefix of CHECK, RESERVE, AUTHORIZE, CAPTURE, FULFILLMENT (in
\* that order, none twice), and a step has been issued only when every
\* required step before it returned success: no authorization without a
\* successful reserve, no fulfillment without a successful capture.
C20_PipelineOrder ==
    \A t \in Threads : saga[t].issued # <<>> =>
        /\ \E n \in 0..Len(RequiredSteps) : RequiredIssued(t) = SubSeq(RequiredSteps, 1, n)
        /\ Issued(t, "INVENTORY_RESERVE") > 0 => saga[t].inv = "success"
        /\ Issued(t, "PAYMENT_AUTHORIZE") > 0 =>
              saga[t].inv = "success" /\ saga[t].reserve = "success"
        /\ Issued(t, "PAYMENT_CAPTURE") > 0 =>
              saga[t].inv = "success" /\ saga[t].reserve = "success"
                  /\ saga[t].pay = "success"
        /\ Issued(t, "FULFILLMENT_CREATE") > 0 =>
              saga[t].inv = "success" /\ saga[t].reserve = "success"
                  /\ saga[t].pay = "success" /\ saga[t].capture = "success"

\* a checkout has issued all five required steps and returned
C20_Witness ==
    \E t \in Threads :
        /\ Returned(t)
        /\ RequiredIssued(t) = RequiredSteps
        /\ saga[t].fulfillment = "success"

\* _release, lines 162-171 for a whole item list
RECURSIVE ReleaseItems(_, _)
ReleaseItems(stk, items) ==
    IF items = <<>> THEN stk
    ELSE LET it == Head(items)
         IN ReleaseItems(IF it.sku \in DOMAIN stk
                         THEN AddWarehouse(AddQty(stk, it), it)
                         ELSE AddQty(stk, it),
                         Tail(items))

\* the ledger a checkout leaves, as the responses of the required steps
\* determine it from the ledger it started on
LedgerOf(t) ==
    IF saga[t].inv # "success" \/ saga[t].reserve # "success" THEN pre[t]
    ELSE IF saga[t].pay = "failed"
    THEN [stock |-> ReleaseItems(ReserveItems(pre[t].stock, saga[t].cart), saga[t].cart),
          reservations |-> pre[t].reservations]
    ELSE [stock |-> ReserveItems(pre[t].stock, saga[t].cart),
          reservations |-> StoreReservation(pre[t].reservations,
                                            saga[t].reservation_id, saga[t].cart)]

\* C21: best-effort steps do not influence the outcome.  The status and
\* reason a checkout returns, and the ledger it leaves, are determined by
\* the responses of CHECK, RESERVE, AUTHORIZE, CAPTURE and FULFILLMENT
\* alone: whatever RECOMMEND, LOYALTY_CALCULATE and LOYALTY_ISSUE answered,
\* the same required responses give the same status, reason and ledger.
C21_BestEffortNoInfluence ==
    \A t \in Threads :
        Returned(t) =>
            /\ <<saga[t].out.status, saga[t].out.reason>> =
                 OutcomeOf(saga[t].inv, saga[t].reserve, saga[t].pay,
                           saga[t].capture, saga[t].fulfillment)
            /\ Ledger = LedgerOf(t)

\* a checkout whose recommendation and both loyalty steps failed has
\* returned success
C21_Witness ==
    \E t \in Threads :
        /\ Returned(t)
        /\ saga[t].rec = "failed" /\ saga[t].loy_calc = "failed"
        /\ saga[t].loy_issue = "failed"
        /\ saga[t].out.status = "success"
        /\ Ledger # pre[t]

\* the steps a checkout sends to its collaborators after the check
CollaboratorSteps ==
    {"INVENTORY_RESERVE", "PAYMENT_AUTHORIZE", "PAYMENT_CAPTURE",
     "FULFILLMENT_CREATE", "LOYALTY_ISSUE", "INVENTORY_RELEASE"}

\* the response a call has had from a required step
StepStatus(t, type) ==
    CASE type = "INVENTORY_CHECK"    -> saga[t].inv
      [] type = "INVENTORY_RESERVE"  -> saga[t].reserve
      [] type = "PAYMENT_AUTHORIZE"  -> saga[t].pay
      [] type = "PAYMENT_CAPTURE"    -> saga[t].capture
      [] type = "FULFILLMENT_CREATE" -> saga[t].fulfillment

\* the tasks a call has issued after its k-th one
IssuedAfter(t, k) == SubSeq(saga[t].issued, k + 1, Len(saga[t].issued))

\* C22: no internal retry.  A checkout issues each collaborator step at
\* most once, and once a required step has answered with a failure the
\* call issues no further step (except the one INVENTORY_RELEASE that
\* compensates a failed authorization) and ends.
C22_NoInternalRetry ==
    \A t \in Threads : saga[t].issued # <<>> =>
        /\ \A type \in CollaboratorSteps : Issued(t, type) <= 1
        /\ \A k \in 1..Len(saga[t].issued) :
              ( /\ IsRequired(saga[t].issued[k])
                /\ StepStatus(t, saga[t].issued[k]) \in {"failed", "raised"} ) =>
                    /\ saga[t].pc \in {"done", "release"}
                    /\ IssuedAfter(t, k) =
                         IF saga[t].issued[k] = "PAYMENT_AUTHORIZE"
                         THEN <<"INVENTORY_RELEASE">> ELSE <<>>

\* a checkout has ended on the failure of its capture
C22_Witness ==
    \E t \in Threads :
        /\ Returned(t)
        /\ saga[t].capture = "failed"
        /\ Issued(t, "PAYMENT_CAPTURE") = 1
        /\ saga[t].out.reason = "capture_failed"

\* C23: pending re-drive.  A checkout that returned pending carries (under
\* the key payment) the auth_id of a stored transaction, which has status
\* PENDING until it is captured; a separate PAYMENT_CAPTURE with that
\* auth_id returns success, leaves the transaction CAPTURED, and leaves
\* the stock and the reservations, the checkout's held reservation among
\* them, as they were.
C23_PendingRedrive ==
    \A t \in Threads :
        (Returned(t) /\ saga[t].out.status = "pending") =>
            LET a == saga[t].auth_id IN
            /\ "payment" \in saga[t].out.keys
            /\ a \in 1..Len(transactions)
            /\ transactions[a].auth_id = a
            /\ transactions[a].status \in {"PENDING", "CAPTURED"}
            /\ (\A u \in Threads : call[u].op # "PAYMENT_CAPTURE" /\ prev[u] = NoPrev)
                  => transactions[a].status = "PENDING"
            /\ (call[t].op = "PAYMENT_CAPTURE" /\ call[t].auth_id = a) =>
                  /\ result[t].status = "success"
                  /\ transactions[a].status = "CAPTURED"
                  /\ Ledger = pre[t]
                  /\ saga[t].reservation_id \in DOMAIN reservations
                  /\ reservations[saga[t].reservation_id] = saga[t].cart

\* the caller has captured the transaction of a checkout that returned
\* pending
C23_Witness ==
    \E t \in Threads :
        /\ Returned(t) /\ saga[t].out.status = "pending"
        /\ call[t].op = "PAYMENT_CAPTURE" /\ call[t].auth_id = saga[t].auth_id
        /\ result[t].status = "success"
        /\ transactions[saga[t].auth_id].status = "CAPTURED"

\* the position of a location id in the lexicographic order
LocIndex(l) == CHOOSE k \in 1..Len(LocOrder) : LocOrder[k] = l

\* what the locations before l in that order hold
SumBefore(locs, l) == SumOver(locs, {m \in DOMAIN locs : LocIndex(m) < LocIndex(l)})

MaxOf(a, b) == IF a >= b THEN a ELSE b

\* C24: location depletion.  After a successful reserve that takes q units
\* of a SKU whose total was the sum of its locations and at least q, every
\* location has lost min(what it held, what of q the locations before it in
\* lexicographic order could not supply): locations are emptied in that
\* order, exactly q units are taken, and the outcome is a function of the
\* prior state and the request.
C24_LocationDepletion ==
    \A t \in Threads :
        ( /\ call[t].pc = "done" /\ call[t].op = "INVENTORY_RESERVE"
          /\ result[t].status = "success" ) =>
            \A s \in CartSkuSet(call[t].items) :
                LET q == SumLines(call[t].items, s)
                    old == pre[t].stock[s].locations
                    new == stock[s].locations
                IN ( /\ q <= pre[t].stock[s].qty
                     /\ pre[t].stock[s].qty = SumLocations(old) ) =>
                        /\ DOMAIN new = DOMAIN old
                        /\ \A l \in DOMAIN old :
                              new[l] = old[l]
                                 - MinOf(old[l], MaxOf(0, q - SumBefore(old, l)))
                        /\ SumLocations(new) = SumLocations(old) - q

\* a reserve has emptied one location and gone on to the next
C24_Witness ==
    \E t \in Threads :
        /\ call[t].pc = "done" /\ call[t].op = "INVENTORY_RESERVE"
        /\ result[t].status = "success"
        /\ pre[t].stock[RED].locations["STORE_1"] > 0
        /\ stock[RED].locations["STORE_1"] = 0
        /\ stock[RED].locations["WAREHOUSE"] > 0
        /\ stock[RED].locations["WAREHOUSE"] < pre[t].stock[RED].locations["WAREHOUSE"]

\* C25: release fallback location.  A successful release has credited,
\* for every SKU of the released reservation, the full released quantity
\* to the SKU's total and to its location WAREHOUSE (created when the SKU
\* had none), has changed no other location, and has left every other SKU
\* as it was.
C25_ReleaseFallbackLocation ==
    \A t \in Threads :
        ( /\ call[t].pc = "done" /\ call[t].op = "INVENTORY_RELEASE"
          /\ result[t].status = "success" ) =>
            /\ call[t].rid \in DOMAIN pre[t].reservations
            /\ call[t].items = pre[t].reservations[call[t].rid]
            /\ DOMAIN stock = DOMAIN pre[t].stock
            /\ \A s \in DOMAIN stock :
                  LET q == SumLines(call[t].items, s)
                      old == pre[t].stock[s]
                      oldw == IF "WAREHOUSE" \in DOMAIN old.locations
                              THEN old.locations["WAREHOUSE"] ELSE 0
                  IN IF s \in CartSkuSet(call[t].items)
                     THEN /\ stock[s].qty = old.qty + q
                          /\ DOMAIN stock[s].locations
                                = DOMAIN old.locations \cup {"WAREHOUSE"}
                          /\ stock[s].locations["WAREHOUSE"] = oldw + q
                          /\ \A l \in DOMAIN old.locations \ {"WAREHOUSE"} :
                                stock[s].locations[l] = old.locations[l]
                     ELSE stock[s] = old

\* a release has restored the totals of a reservation but not the
\* per-location breakdown, and has created the WAREHOUSE location of a
\* SKU that had none
C25_Witness ==
    \E t \in Threads :
        /\ call[t].pc = "done" /\ call[t].op = "INVENTORY_RELEASE"
        /\ result[t].status = "success"
        /\ stock[RED].qty = InitStock[RED].qty
        /\ stock[RED].locations # InitStock[RED].locations
        /\ "WAREHOUSE" \notin DOMAIN pre[t].stock[JEANS].locations
        /\ "WAREHOUSE" \in DOMAIN stock[JEANS].locations
        /\ stock[JEANS].locations["WAREHOUSE"] > 0

\* C26: release of an unknown id.  An INVENTORY_RELEASE whose reservation
\* id is missing, or is not held when the call is made, returns failed
\* with INVALID_RESERVATION and leaves every stock quantity, location
\* quantity and reservation as it was.
C26_ReleaseUnknownId ==
    \A t \in Threads :
        ( /\ call[t].pc = "done" /\ call[t].op = "INVENTORY_RELEASE"
          /\ (call[t].rid = NoRid \/ call[t].rid \notin DOMAIN pre[t].reservations) ) =>
            /\ result[t].status = "failed"
            /\ result[t].code = "INVALID_RESERVATION"
            /\ Ledger = pre[t]

\* a release of an id that is held by nobody, while other reservations
\* are held, has returned
C26_Witness ==
    \E t \in Threads :
        /\ call[t].pc = "done" /\ call[t].op = "INVENTORY_RELEASE"
        /\ call[t].rid # NoRid
        /\ call[t].rid \notin DOMAIN pre[t].reservations
        /\ pre[t].reservations # EmptyMap
        /\ result[t].code = "INVALID_RESERVATION"

\* C27: reserve input validation.  An INVENTORY_RESERVE without an order
\* id, or with an empty item list, has returned failed with MISSING_FIELDS
\* as its first step: it never waits for or holds the lock, and stock and
\* reservations stay as they were.
C27_ReserveInputValidation ==
    \A t \in Threads :
        ( /\ call[t].op = "INVENTORY_RESERVE"
          /\ (call[t].order_id = NoOrder \/ call[t].items = <<>>) ) =>
            /\ call[t].pc = "done"
            /\ lock # t
            /\ result[t].status = "failed"
            /\ result[t].code = "MISSING_FIELDS"
            /\ Ledger = pre[t]

\* a reserve without an order id, for items that are in stock, has been
\* rejected
C27_Witness ==
    \E t \in Threads :
        /\ call[t].pc = "done" /\ call[t].op = "INVENTORY_RESERVE"
        /\ call[t].order_id = NoOrder
        /\ call[t].items # <<>>
        /\ Sufficient(stock, call[t].items)
        /\ result[t].code = "MISSING_FIELDS"

\* the error code the step that failed a checkout answered with (the check
\* answers a failure without any error)
FailedStepCode(t) ==
    CASE saga[t].out.reason = "inventory_unavailable" -> ""
      [] saga[t].out.reason = "reserve_failed" -> result[t].code
      [] saga[t].out.reason = "payment_failed" ->
            Authorize(Amount(saga[t].cart), saga[t].payment).code
      [] saga[t].out.reason \in {"capture_failed", "fulfillment_failed"} ->
            InjectedFailure.code
      [] OTHER -> "?"

\* C28: failure detail.  Every failed checkout result carries, besides its
\* reason, a detail that is the error list of the step that failed, as
\* that step returned it.
C28_FailureDetail ==
    \A t \in Threads :
        (Returned(t) /\ saga[t].out.status = "failed") =>
            /\ "reason" \in saga[t].out.keys
            /\ "detail" \in saga[t].out.keys
            /\ saga[t].out.detail = FailedStepCode(t)

\* whether the ledger stk can supply line it, given the preferred store
CanSupply(stk, it, store) ==
    LET s == GetSku(it)
        q == GetQty(it)
    IN /\ s \in DOMAIN stk
       /\ \/ stk[s].qty >= q
          \/ /\ store # NoStore
             /\ store \in DOMAIN stk[s].locations
             /\ stk[s].locations[store] >= q

\* C29: check result.  A completed INVENTORY_CHECK answers one entry per
\* line; a line is reported available iff the SKU's total is at least the
\* requested quantity or, a preferred store stocking the SKU being given,
\* that store's quantity is; and the task status is success iff every
\* line is available (an empty item list gives success).
C29_CheckResult ==
    \A t \in Threads :
        (call[t].pc = "done" /\ call[t].op = "INVENTORY_CHECK") =>
            /\ Len(result[t].items) = Len(call[t].items)
            /\ \A k \in 1..Len(call[t].items) :
                  result[t].items[k].available
                     <=> CanSupply(stock, call[t].items[k], call[t].preferred_store)
            /\ result[t].status \in {"success", "failed"}
            /\ result[t].status = "success"
                  <=> \A k \in 1..Len(call[t].items) :
                         CanSupply(stock, call[t].items[k], call[t].preferred_store)

\* a two-line check with a preferred store has reported its first line
\* available and its second line, whose SKU the store stocks, unavailable,
\* and has failed
C29_Witness ==
    \E t \in Threads :
        /\ call[t].pc = "done" /\ call[t].op = "INVENTORY_CHECK"
        /\ call[t].preferred_store # NoStore
        /\ Len(call[t].items) = 2
        /\ Len(result[t].items) = 2
        /\ result[t].items[1].available
        /\ result[t].items[2].has_store
        /\ ~result[t].items[2].available
        /\ result[t].items[2].available_qty > 0
        /\ result[t].status = "failed"

\* the earlier reservation was held when the calls began
HeldAtStart == stock0 # InitStock

\* C30: concurrent double release.  When releases of one held reservation
\* id run concurrently, every release returns a TaskResult, success or
\* failed with INVALID_RESERVATION; of two that have returned exactly one
\* has succeeded; and the reservation's quantities are credited once
\* (total plus held never exceeds the original quantity).
C30_ConcurrentDoubleRelease ==
    /\ \A t \in Threads :
          (call[t].pc = "done" /\ call[t].op = "INVENTORY_RELEASE") =>
             \/ result[t].status = "success"
             \/ result[t].status = "failed" /\ result[t].code = "INVALID_RESERVATION"
    /\ \A t, u \in Threads :
          ( /\ t # u
            /\ call[t].pc = "done" /\ call[t].op = "INVENTORY_RELEASE"
            /\ call[u].pc = "done" /\ call[u].op = "INVENTORY_RELEASE"
            /\ call[t].rid = call[u].rid
            /\ HeldAtStart ) =>
               /\ result[t].status # result[u].status
               /\ "success" \in {result[t].status, result[u].status}
    /\ \A s \in DOMAIN InitStock :
          stock[s].qty + HeldQty(reservations, s) <= InitStock[s].qty

\* C31 (as claimed): aggregate validation.  A reserve that has returned
\* success requested, for every SKU, no more in total over the lines naming
\* that SKU than the SKU's total quantity was when the call began.
C31_AggregateValidation ==
    \A t \in Threads :
        ( /\ call[t].pc = "done"
          /\ call[t].op = "INVENTORY_RESERVE"
          /\ result[t].status = "success" ) =>
            \A s \in DOMAIN pre[t].stock :
                SumLines(call[t].items, s) <= pre[t].stock[s].qty

\* the checkout of thread u holds a reservation that it has not sent a
\* compensating release for
Keeps(u) ==
    /\ saga[u].reserve = "success"
    /\ saga[u].pay \in {"success", "pending"}

\* the quantity of SKU s held by the checkouts of the threads in S
RECURSIVE KeptQty(_, _)
KeptQty(S, s) ==
    IF S = {} THEN 0
    ELSE LET u == CHOOSE x \in S : TRUE
         IN (IF Keeps(u) THEN SumLines(saga[u].cart, s) ELSE 0) + KeptQty(S \ {u}, s)

\* C32: compensation isolation.  With checkouts running concurrently, a
\* checkout that keeps its reservation always finds it in the store with
\* its own lines, whatever compensating releases the other checkouts ran;
\* a checkout whose payment failed ends with its release successful and its
\* own reservation gone; and once every checkout has returned, each total
\* is the starting total less the quantities of the kept reservations, so
\* each release credited exactly the lines of its own checkout.
C32_CompensationIsolation ==
    /\ \A u \in Threads :
          Keeps(u) =>
             /\ saga[u].reservation_id \in DOMAIN reservations
             /\ reservations[saga[u].reservation_id] = saga[u].cart
    /\ \A t \in Threads :
          (Returned(t) /\ saga[t].pay = "failed") =>
             /\ saga[t].release = "success"
             /\ saga[t].reservation_id \notin DOMAIN reservations
    /\ (\A t \in Threads : saga[t].pc \in {"idle", "done"}) =>
          \A s \in DOMAIN stock :
              stock[s].qty = stock0[s].qty - KeptQty(Threads, s)

\* one checkout is crediting the lines of its compensating release while
\* another one, started concurrently, holds its reservation
C32_Witness ==
    \E t, u \in Threads :
        /\ t # u
        /\ saga[t].pc = "release"
        /\ call[t].pc \in {"l_qty", "l_loc"}
        /\ Keeps(u)
        /\ saga[u].pc # "done"
        /\ saga[u].reservation_id \in DOMAIN reservations
        /\ C32_CompensationIsolation

\* thread t is inside the with _lock block of _reserve or _release
InCritical(t) == call[t].pc \in {"r_val", "r_qty", "r_loc", "r_store", "l_qty", "l_loc"}

\* thread t has a reserve or release in progress
InCall(t) == call[t].pc \notin {"idle", "done"}

\* C33: lock liveness.  The lock is held exactly by a thread inside the
\* critical section of reserve or release, so it is free again on every
\* exit path (success, INSUFFICIENT_STOCK, a fault inside the section); and
\* under fair scheduling every reserve or release that was started returns.
C33_LockLiveness ==
    /\ [](\A t \in Threads : lock = t <=> InCritical(t))
    /\ \A t \in Threads : InCall(t) ~> (call[t].pc = "done")

\* the lock is free after calls have left the critical section through the
\* INSUFFICIENT_STOCK return, through a fault, and through a release
C33_Witness ==
    /\ lock = NoThread
    /\ \E t, u, w \in Threads :
          /\ call[t].pc = "done" /\ call[t].op = "INVENTORY_RESERVE"
          /\ result[t].code = "INSUFFICIENT_STOCK"
          /\ call[u].pc = "done" /\ call[u].op = "INVENTORY_RESERVE"
          /\ result[u].status = "raised"
          /\ call[w].pc = "done" /\ call[w].op = "INVENTORY_RELEASE"
          /\ result[w].status = "success"

\* thread t is at the pop of an INVENTORY_RELEASE for reservation id r
ReleasingId(t, r) ==
    call[t].op = "INVENTORY_RELEASE" /\ call[t].pc = "l_pop" /\ call[t].rid = r

\* thread t is at the crediting step of an INVENTORY_RELEASE
Crediting(t) == call[t].op = "INVENTORY_RELEASE" /\ call[t].pc = "l_qty"

\* the checkout of thread t ended with its reservation left held
EndedHolding(t) ==
    /\ Returned(t)
    /\ \/ saga[t].out.status = "pending"
       \/ saga[t].out.reason \in {"capture_failed", "fulfillment_failed"}

\* C34: no expiry of holds.  A step removes or alters a stored reservation
\* only if it is the pop of an INVENTORY_RELEASE for that id, and raises a
\* total only if it is the crediting step of an INVENTORY_RELEASE; so the
\* passing of time, further checkouts and every other step leave a hold and
\* its deducted stock as they are.  While no call is running, every total
\* plus the quantity held for it equals the original quantity.
C34_NoExpiry ==
    /\ [][ /\ \A r \in DOMAIN reservations :
                \/ r \in DOMAIN reservations' /\ reservations'[r] = reservations[r]
                \/ \E t \in Threads : ReleasingId(t, r)
           /\ \A s \in DOMAIN stock :
                stock'[s].qty > stock[s].qty => \E t \in Threads : Crediting(t)
           /\ now' # now => (stock' = stock /\ reservations' = reservations) ]_vars
    /\ []((\A t \in Threads : Free(t) /\ saga[t].pc \in {"idle", "done"}) =>
             \A s \in DOMAIN stock :
                 stock[s].qty + HeldQty(reservations, s) = InitStock[s].qty)

\* a checkout ended pending, capture_failed or fulfillment_failed, the clock
\* has advanced since, and its reservation is still stored with its stock
\* deducted
C34_Witness ==
    \E t \in Threads :
        /\ EndedHolding(t)
        /\ now > saga[t].reservation_id[2]
        /\ saga[t].reservation_id \in DOMAIN reservations
        /\ reservations[saga[t].reservation_id] = saga[t].cart
        /\ \A s \in DOMAIN stock :
              stock[s].qty = stock0[s].qty - SumLines(saga[t].cart, s)

\* C35 (as claimed): with the shipped payment and fulfillment agents, a
\* checkout whose PAYMENT_AUTHORIZE returned success has PAYMENT_CAPTURE
\* and FULFILLMENT_CREATE return success as well, and no checkout returns
\* capture_failed or fulfillment_failed.
C35_ShippedCollaborators ==
    \A t \in Threads :
        (Returned(t) /\ ~saga[t].stubbed) =>
            /\ saga[t].pay = "success" =>
                  saga[t].capture = "success" /\ saga[t].fulfillment = "success"
            /\ saga[t].out.reason \notin {"capture_failed", "fulfillment_failed"}

\* thread t takes the step that sends PAYMENT_CAPTURE for auth_id a, from a
\* caller or inside a checkout
CaptureStep(t, a) ==
    \/ call'[t].op = "PAYMENT_CAPTURE" /\ call'[t].auth_id = a /\ nops' = nops + 1
    \/ /\ saga[t].pc \in {"capture", "capture_scan"}
       /\ saga[t].auth_id = a
       /\ saga'[t].capture # "none"

\* C36: payment transaction lifecycle.  A record enters the ledger as
\* AUTHORIZED or PENDING and none is removed; a step changes a record's
\* status only to CAPTURED and only if it is a PAYMENT_CAPTURE for its
\* auth_id; a CAPTURED record keeps its status and its capture time for
\* good.  A PAYMENT_CAPTURE from a caller for an auth_id that is already
\* captured returns success and leaves the ledger as it is; for an unknown
\* auth_id it fails with AUTH_NOT_FOUND and leaves the ledger as it is.
C36_TransactionLifecycle ==
    [][ /\ Len(transactions') >= Len(transactions)
        /\ \A k \in 1..Len(transactions') :
              k > Len(transactions) =>
                 /\ transactions'[k].status \in {"AUTHORIZED", "PENDING"}
                 /\ transactions'[k].auth_id = k
        /\ \A k \in 1..Len(transactions) :
              /\ transactions'[k].status # transactions[k].status =>
                    /\ transactions'[k].status = "CAPTURED"
                    /\ \E t \in Threads : CaptureStep(t, k)
              /\ transactions[k].status = "CAPTURED" =>
                    /\ transactions'[k].status = "CAPTURED"
                    /\ transactions'[k].captured_at = transactions[k].captured_at
        /\ \A t \in Threads :
              (call'[t].op = "PAYMENT_CAPTURE" /\ nops' = nops + 1) =>
                 LET k == FindAuth(transactions, call'[t].auth_id)
                 IN /\ k = 0 =>
                          /\ result'[t].status = "failed"
                          /\ result'[t].code = "AUTH_NOT_FOUND"
                          /\ transactions' = transactions
                    /\ (k # 0 /\ transactions[k].status = "CAPTURED") =>
                          /\ result'[t].status = "success"
                          /\ transactions' = transactions
                    /\ (k # 0 /\ transactions[k].status # "CAPTURED") =>
                          /\ result'[t].status = "success"
                          /\ transactions'[k].status = "CAPTURED" ]_vars

\* the checkout captured its transaction, and a caller's PAYMENT_CAPTURE
\* for the same auth_id has returned success later, with the record still
\* carrying the time of the first capture
C36_Witness ==
    \E t \in Threads :
        /\ Returned(t) /\ saga[t].capture = "success" /\ ~saga[t].stubbed
        /\ call[t].op = "PAYMENT_CAPTURE" /\ call[t].auth_id = saga[t].auth_id
        /\ result[t].status = "success"
        /\ transactions[saga[t].auth_id].status = "CAPTURED"
        /\ transactions[saga[t].auth_id].captured_at < now

\* C37 (as claimed): stock upper bound.  No total ever exceeds the
\* quantity the agent was constructed with, whatever integer quantities
\* the lines of the reserves carry; a reserve that returned success has
\* raised no total, and a release that returned success has lowered none.
C37_StockUpperBound ==
    /\ \A s \in DOMAIN stock : stock[s].qty <= InitStock[s].qty
    /\ \A t \in Threads :
          (call[t].pc = "done" /\ result[t].status = "success") =>
             /\ call[t].op = "INVENTORY_RESERVE" =>
                   \A s \in DOMAIN stock : stock[s].qty <= pre[t].stock[s].qty
             /\ call[t].op = "INVENTORY_RELEASE" =>
                   \A s \in DOMAIN stock : stock[s].qty >= pre[t].stock[s].qty

\* the click_and_collect records of store s that were never cancelled
HeldPickups(s) ==
    {k \in 1..Len(fulfillments) :
        /\ fulfillments[k].mode = "click_and_collect"
        /\ fulfillments[k].store_id = s
        /\ ~fulfillments[k].cancelled}

\* C38: pickup capacity bounds: whatever FULFILLMENT_CREATE (click_and_collect,
\* with or without a store_id) and FULFILLMENT_CANCEL tasks were handled,
\* every store's capacity is between 0 and its initial value, and a fulfillment
\* gives back no more than the unit it took, so that the capacity and the
\* pickups still held never add up to more than the initial capacity
C38_PickupCapacity ==
    \A s \in DOMAIN stores :
        /\ 0 <= stores[s]
        /\ stores[s] <= InitStores[s]
        /\ stores[s] + Cardinality(HeldPickups(s)) <= InitStores[s]

====
